---------------------------- MODULE Spec2Model ----------------------------
(***************************************************************************)
(* Request/response lifecycle controller of the CoAP Zephyr clients.       *)
(*                                                                         *)
(* Three builds of main() are modelled:                                    *)
(*   "mbedtls"  src/mbedtls/src/main.c   lines 163-366 (USE_DTLS optional)  *)
(*   "pqc"      src/mbedtls/src/main.c   lines 596-809 (main_pqc.c)         *)
(*   "wolfssl"  src/wolfssl/src/main.c   lines 128-290                      *)
(*                                                                         *)
(* The provider calls (libcoap, the WiFi helper) are external: each call   *)
(* is a nondeterministic choice over its documented return values.         *)
(* `calls` records the provider calls made (coap_io_process excepted, it   *)
(* is accounted by `elapsed`), `out` the stage diagnostics printed.        *)
(***************************************************************************)
EXTENDS Integers, Sequences, FiniteSets, TLC

\* ------------------------------------------------------------------ bounds
\* largest integer part of the session's default leisure that is explored
MaxLeisure == 1
\* largest number of response deliveries inside one coap_io_process call
MaxDeliveries == 2

\* ------------------------------------------------------- program constants
\* for (attempt = 1; attempt <= 3 && ...)
MaxWifiAttempts == 3
\* char host_str[64]
HostStrSize == 64
EXIT_SUCCESS == 0
EXIT_FAILURE == 1
NULL == "NULL"

Variants == {"mbedtls", "pqc", "wolfssl"}
\* the two builds whose main() has the connectivity retry loop
RetryVariants == {"mbedtls", "pqc"}

Schemes == {"coap", "coap+tcp", "coaps"}

\* host components a build may be configured with (COAP_SERVER_IP /
\* COAP_CLIENT_URI); "h63" and "h64" stand for names of 63 and 64 bytes
Hosts == {"", "127.0.0.1", "134.102.218.18", "coap.me", "h63", "h64"}

HostLen(h) ==
    CASE h = ""               -> 0
      [] h = "127.0.0.1"      -> 9
      [] h = "134.102.218.18" -> 14
      [] h = "coap.me"        -> 7
      [] h = "h63"            -> 63
      [] h = "h64"            -> 64

\* inet_pton(AF_INET, host, ..) > 0
IsNumericIPv4(h) == h \in {"127.0.0.1", "134.102.218.18"}

\* return values of connect_to_wifi / wait_for_wifi_connection
ProviderRets == {-1, 0}
\* return values of coap_io_process(ctx, 500): an error, or the elapsed ms
\* (nothing, the whole 500 ms slice, more than the slice)
IoReturns == {-1, 0, 500, 700}
Leisures == 0..MaxLeisure

Resources == {"optlist", "session", "ctx"}

VARIABLES
    variant,        \* which main() is running
    use_dtls,       \* USE_DTLS defined at build time (mbedtls build)
    coap_uri,       \* compiled-in target: [scheme, host]
    port_cfg,       \* COAP_SERVER_PORT given to the build (PortNotSet: none)
    pc,             \* position of main()
    uri,            \* coap_uri_t filled by coap_split_uri
    attempt,        \* loop counter of the WiFi retry loop
    wifi_connected,
    host_str,       \* host copied out of the URI
    host_buf,       \* bytes copied into host_str and the index of its '\0'
    keyshare,       \* key-exchange group set on the session's WOLFSSL object
    dst,            \* coap_address_t
    is_mcast,
    ctx, session, optlist, pdu,
    result,
    have_response,  \* static int have_response
    wait_ms,
    res,
    leisure,        \* integer part of the session's default leisure
    handler_registered,
    created,        \* resources that were created in this run
    attempts,       \* per connect attempt: what the provider returned
    handler_calls,  \* invocations of response_handler
    hr_changes,     \* how often have_response changed its value
    handler_rets,   \* the values response_handler returned to the library
    received,       \* payloads of the responses delivered to the handler
    surfaced,       \* payloads the handler wrote to stdout
    elapsed,        \* sum of the non-negative coap_io_process returns
    calls,          \* provider calls made so far, in order
    out,            \* diagnostics printed so far, in order
    script,         \* the host-side script or library routine that is running
    argv,           \* its arguments not yet consumed
    environ,        \* what it was started with: command line, environment
                    \* variables, west workspace, installed OpenSSL
    shvars,         \* its shell variables
    sh_pc,          \* its position
    sh_cmds,        \* the commands it ran so far, in order
    sh_status       \* its exit status (Running until it exits)

vars == <<variant, use_dtls, coap_uri, port_cfg, pc, uri, attempt, wifi_connected,
          host_str, host_buf, keyshare, dst, is_mcast, ctx, session, optlist, pdu, result,
          have_response, wait_ms, res, leisure, handler_registered, created,
          attempts, handler_calls, hr_changes, handler_rets, received,
          surfaced, elapsed, calls, out,
          script, argv, environ, shvars, sh_pc, sh_cmds, sh_status>>

cfgVars == <<variant, use_dtls, coap_uri, port_cfg>>

\* the state of the host-side scripts, which no step of main touches
shVars == <<script, argv, environ, shvars, sh_pc, sh_cmds, sh_status>>

\* the variables of main
mainVars == <<variant, use_dtls, coap_uri, port_cfg, pc, uri, attempt, wifi_connected,
              host_str, host_buf, keyshare, dst, is_mcast, ctx, session, optlist, pdu,
              result, have_response, wait_ms, res, leisure, handler_registered,
              created, attempts, handler_calls, hr_changes, handler_rets, received,
              surfaced, elapsed, calls, out>>

\* what the response handler leaves behind besides have_response
handlerLog == <<hr_changes, handler_rets, received, surfaced>>

Count(s, x) == Cardinality({i \in DOMAIN s : s[i] = x})
Has(s, x) == \E i \in DOMAIN s : s[i] = x
Positions(s, x) == {i \in DOMAIN s : s[i] = x}

\* ------------------------------------------------------------ configuration
\* COAP_CLIENT_URI of each build
ClientUris(v, dtls) ==
    IF v = "mbedtls"
    THEN {[scheme |-> IF dtls THEN "coaps" ELSE "coap", host |-> h] : h \in Hosts}
    ELSE IF v = "pqc"
    THEN {[scheme |-> "coaps", host |-> h] : h \in Hosts}
    ELSE {[scheme |-> s, host |-> h] : s \in Schemes, h \in Hosts}

\* the build was given no COAP_SERVER_PORT
PortNotSet == 0
\* --coap-port of the build script: absent, or a port of the user's choice
ServerPortConfigs == {PortNotSet, 5700}

NoUri == [scheme |-> "none", host |-> "", port |-> 0]
NoDst == [size |-> 0, family |-> "none", host |-> "", sin_port |-> 0]

\* no key share was set: the library negotiates its default groups
NoKeyShare == "default"

\* char host_str[64] before the copy: nothing written
NoHostBuf == [copied |-> 0, nul |-> -1]

NoPdu == [type |-> "none", code |-> "none", mid |-> "none", options |-> FALSE,
          state |-> "null"]

\* the value response_handler stores in have_response
ResponseSeen == 1

\* have_response starting out set
InitHaveResponse_set == ResponseSeen

\* static int have_response = 0
InitHaveResponse == 0

\* int result initialised to the success code
InitResult_success == EXIT_SUCCESS

\* int result = EXIT_FAILURE
InitResult == EXIT_FAILURE

\* no script is running while main runs on the board
Running == -1
\* an environment variable that is not set
Unset == [set |-> FALSE, value |-> ""]
NoEnviron == [cmdline |-> <<>>, WIFI_SSID |-> "", WIFI_PASS |-> "",
              COAP_WOLFSSL_GROUPS |-> Unset, workspace |-> FALSE, openssl |-> 0]
NoShVars == [BACKEND |-> "", WIFI_SSID |-> "", WIFI_PASS |-> "", DO_INIT |-> FALSE,
             DO_CLEAN |-> FALSE, USE_DTLS |-> FALSE, CERT_TYPE |-> "",
             OUTPUT_DIR |-> "", INSTALL_OPENSSL |-> "no",
             COAP_WOLFSSL_GROUPS |-> "", ENABLE_MLKEM |-> FALSE, MLKEM_LEVEL |-> 0]
NoScriptRun ==
    /\ script = "none"
    /\ argv = <<>>
    /\ environ = NoEnviron
    /\ shvars = NoShVars
    /\ sh_pc = "none"
    /\ sh_cmds = <<>>
    /\ sh_status = Running

MainInit ==
    /\ variant \in Variants
    /\ use_dtls \in (IF variant = "mbedtls" THEN BOOLEAN ELSE {FALSE})
    /\ coap_uri \in ClientUris(variant, use_dtls)
    /\ port_cfg \in ServerPortConfigs
    /\ pc = "start"
    /\ uri = NoUri
    /\ attempt = 0
    /\ wifi_connected = 0
    /\ host_str = ""
    /\ host_buf = NoHostBuf
    /\ keyshare = NoKeyShare
    /\ dst = NoDst
    /\ is_mcast = 0
    /\ ctx = NULL /\ session = NULL /\ optlist = NULL /\ pdu = NoPdu
    /\ result = InitResult
    /\ have_response = InitHaveResponse
    /\ wait_ms = 0
    /\ res = 0
    /\ leisure = 0
    /\ handler_registered = FALSE
    /\ created = {}
    /\ attempts = <<>>
    /\ handler_calls = 0
    /\ hr_changes = 0
    /\ handler_rets = {}
    /\ received = <<>>
    /\ surfaced = <<>>
    /\ elapsed = 0
    /\ calls = <<>>
    /\ out = <<>>

Init == MainInit /\ NoScriptRun


\* ------------------------------------------------------------- URI parsing
COAP_DEFAULT_PORT == 5683
COAPS_DEFAULT_PORT == 5684

\* coap_split_uri fills in the scheme's default port when the URI has none
DefaultPort(scheme) ==
    IF scheme = "coaps" THEN COAPS_DEFAULT_PORT ELSE COAP_DEFAULT_PORT

\* COAP_SERVER_PORT: the value given to the build, else the #ifndef default
CoapServerPort(v, dtls, cfg) ==
    IF cfg # PortNotSet THEN cfg
    ELSE IF v = "pqc" \/ (v = "mbedtls" /\ dtls)
    THEN COAPS_DEFAULT_PORT ELSE COAP_DEFAULT_PORT

\* coap_split_uri: 0 on success, negative for a malformed URI (empty host)
coap_split_uri(u) == IF HostLen(u.host) > 0 THEN 0 ELSE -3

\* the library initialised only after the URI was parsed
ParseUri_startupAfterParse ==
    /\ pc = "start"
    /\ LET len == coap_split_uri(coap_uri) IN
       IF len # 0
       THEN /\ calls' = calls \o <<"coap_split_uri", "coap_startup">>
            /\ out' = Append(out, "parse_failed")
            /\ pc' = "finish"
            /\ UNCHANGED <<uri, attempt>>
       ELSE /\ calls' = calls \o <<"coap_split_uri", "coap_startup", "wifi_init">>
            /\ uri' = [scheme |-> coap_uri.scheme, host |-> coap_uri.host,
                       port |-> DefaultPort(coap_uri.scheme)]
            /\ attempt' = 1
            /\ pc' = "wifi"
            /\ out' = out
    /\ UNCHANGED <<cfgVars, shVars, wifi_connected, host_str, host_buf, keyshare, dst, is_mcast, ctx,
                   session, optlist, pdu, result, have_response, wait_ms, leisure, res,
                   handler_registered, created, handler_calls, elapsed, attempts, handlerLog>>

\* coap_startup(); verify_tls_backend(); coap_split_uri(); wifi_init()
ParseUri ==
    /\ pc = "start"
    /\ LET len == coap_split_uri(coap_uri) IN
       IF len # 0
       THEN /\ calls' = calls \o <<"coap_startup", "coap_split_uri">>
            /\ out' = Append(out, "parse_failed")
            /\ pc' = "finish"
            /\ UNCHANGED <<uri, attempt>>
       ELSE /\ calls' = calls \o <<"coap_startup", "coap_split_uri", "wifi_init">>
            /\ uri' = [scheme |-> coap_uri.scheme, host |-> coap_uri.host,
                       port |-> DefaultPort(coap_uri.scheme)]
            /\ attempt' = 1
            /\ pc' = "wifi"
            /\ out' = out
    /\ UNCHANGED <<cfgVars, shVars, wifi_connected, host_str, host_buf, keyshare, dst, is_mcast, ctx,
                   session, optlist, pdu, result, have_response, wait_ms, leisure, res,
                   handler_registered, created, handler_calls, elapsed, attempts, handlerLog>>

\* ------------------------------------------------- connectivity (retry loop)
\* the loop condition without the !wifi_connected conjunct
WifiLoopCond_noShortCircuit(a, connected) == a <= MaxWifiAttempts

\* attempt <= 3 && !wifi_connected
WifiLoopCond(a, connected) == a <= MaxWifiAttempts /\ connected = 0

\* the attempt taken as ready when either provider call succeeded
AttemptSucceeds_either(ret, w) == ret >= 0 \/ w >= 0

\* ret >= 0 && wait_for_wifi_connection() >= 0
AttemptSucceeds(ret, w) == ret >= 0 /\ w >= 0

\* the retry delay taken after every failed attempt, the last included
RetryCleanupCond_always(a) == a <= MaxWifiAttempts

\* if (attempt < 3) { wifi_disconnect(); k_sleep(K_MSEC(2000)); }
RetryCleanupCond(a) == a < MaxWifiAttempts

\* one iteration of the retry loop
WifiAttempt ==
    /\ pc = "wifi"
    /\ variant \in RetryVariants
    /\ WifiLoopCond(attempt, wifi_connected)
    /\ \E ret \in ProviderRets, w \in ProviderRets :
         LET c1 == calls \o <<"connect_to_wifi">>
                     \o (IF ret >= 0 THEN <<"wait_for_wifi_connection">> ELSE <<>>)
         IN /\ attempts' = Append(attempts,
                                  [connect |-> ret, waited |-> ret >= 0,
                                   ready |-> IF ret >= 0 THEN w ELSE 0])
            /\ IF AttemptSucceeds(ret, w)
               THEN /\ wifi_connected' = 1
                    /\ calls' = c1
               ELSE /\ wifi_connected' = wifi_connected
                    /\ calls' = IF RetryCleanupCond(attempt)
                                THEN c1 \o <<"wifi_disconnect", "k_sleep_2000">>
                                ELSE c1
    /\ attempt' = attempt + 1
    /\ UNCHANGED <<cfgVars, shVars, pc, uri, host_str, host_buf, keyshare, dst, is_mcast, ctx, session,
                   optlist, pdu, result, have_response, wait_ms, leisure, res,
                   handler_registered, created, handler_calls, elapsed, out, handlerLog>>

\* the loop left with a disconnect of its own when no attempt connected
WifiLoopExit_disconnects ==
    /\ pc = "wifi"
    /\ variant \in RetryVariants
    /\ ~WifiLoopCond(attempt, wifi_connected)
    /\ IF wifi_connected = 0
       THEN /\ out' = Append(out, "wifi_exhausted")
            /\ pc' = "finish"
            /\ calls' = Append(calls, "wifi_disconnect")
       ELSE /\ calls' = Append(calls, "k_sleep_1000")
            /\ pc' = "host"
            /\ out' = out
    /\ UNCHANGED <<cfgVars, shVars, uri, attempt, wifi_connected, host_str, host_buf, keyshare, dst,
                   is_mcast, ctx, session, optlist, pdu, result, have_response,
                   wait_ms, leisure, res, handler_registered, created, handler_calls,
                   elapsed, attempts, handlerLog>>

\* the loop is left: if (!wifi_connected) goto finish; k_sleep(K_MSEC(1000))
WifiLoopExit ==
    /\ pc = "wifi"
    /\ variant \in RetryVariants
    /\ ~WifiLoopCond(attempt, wifi_connected)
    /\ IF wifi_connected = 0
       THEN /\ out' = Append(out, "wifi_exhausted")
            /\ pc' = "finish"
            /\ calls' = calls
       ELSE /\ calls' = Append(calls, "k_sleep_1000")
            /\ pc' = "host"
            /\ out' = out
    /\ UNCHANGED <<cfgVars, shVars, uri, attempt, wifi_connected, host_str, host_buf, keyshare, dst,
                   is_mcast, ctx, session, optlist, pdu, result, have_response,
                   wait_ms, leisure, res, handler_registered, created, handler_calls,
                   elapsed, attempts, handlerLog>>

\* wolfSSL client: one connect, the wait is made whatever connect returned
WifiOnce ==
    /\ pc = "wifi"
    /\ variant = "wolfssl"
    /\ \E ret \in ProviderRets, w \in ProviderRets :
         LET c1 == calls \o <<"connect_to_wifi", "wait_for_wifi_connection">> IN
         /\ attempts' = Append(attempts, [connect |-> ret, waited |-> TRUE, ready |-> w])
         /\ IF w < 0
            THEN /\ out' = Append(out, "wifi_wait_failed")
                 /\ pc' = "finish"
                 /\ calls' = c1
                 /\ wifi_connected' = wifi_connected
            ELSE IF ret < 0
            THEN /\ out' = Append(out, "wifi_connect_failed")
                 /\ pc' = "finish"
                 /\ calls' = c1
                 /\ wifi_connected' = wifi_connected
            ELSE /\ calls' = Append(c1, "k_sleep_1000")
                 /\ pc' = "addr"
                 /\ out' = out
                 /\ wifi_connected' = 1
    /\ UNCHANGED <<cfgVars, shVars, uri, attempt, host_str, host_buf, keyshare, dst, is_mcast, ctx,
                   session, optlist, pdu, result, have_response, wait_ms, leisure, res,
                   handler_registered, created, handler_calls, elapsed, handlerLog>>


\* --------------------------------------------------------- address resolver
\* the length test taken inclusive of the buffer size
HostFits_inclusive(h) == HostLen(h) <= HostStrSize

\* uri.host.length < sizeof(host_str)
HostFits(h) == HostLen(h) < HostStrSize

\* memcpy(host_str, uri.host.s, uri.host.length); host_str[length] = '\0'
HostCopy ==
    /\ pc = "host"
    /\ IF HostFits(uri.host)
       THEN /\ host_str' = uri.host
            /\ host_buf' = [copied |-> HostLen(uri.host), nul |-> HostLen(uri.host)]
            /\ pc' = "addr"
            /\ out' = out
       ELSE /\ out' = Append(out, "host_too_long")
            /\ pc' = "finish"
            /\ UNCHANGED <<host_str, host_buf>>
    /\ UNCHANGED <<cfgVars, shVars, uri, attempt, wifi_connected, keyshare, dst, is_mcast, ctx,
                   session, optlist, pdu, result, have_response, wait_ms, leisure, res,
                   handler_registered, created, handler_calls, elapsed, calls, attempts, handlerLog>>

\* the host handed to setup_destination_address
AddressHost(v) == IF v = "wolfssl" THEN "134.102.218.18" ELSE host_str

\* uri.port ? uri.port : COAP_SERVER_PORT   (wolfSSL client: uri.port)
AddressPort(v) ==
    IF v = "wolfssl" THEN uri.port
    ELSE IF uri.port # 0 THEN uri.port ELSE CoapServerPort(v, use_dtls, port_cfg)

\* sizeof(struct sockaddr_in), 8 bytes in Zephyr
SizeofSockaddrIn == 8

\* htons / ntohs on the little-endian targets: the two bytes swapped
htons(p) == (p % 256) * 256 + (p \div 256)
ntohs(p) == htons(p)

\* dst.addr is a union: addr.sin.sin_family and addr.sa.sa_family are the
\* same storage, kept in the one field `family`
sin_family(d) == d.family
sa_family(d) == d.family

\* setup_destination_address that leaves dst->size as memset wrote it
setup_destination_address_nosize(host, port) ==
    IF IsNumericIPv4(host)
    THEN [ret |-> 1,
          dst |-> [size |-> 0, family |-> "AF_INET",
                   host |-> host, sin_port |-> htons(port)]]
    ELSE [ret |-> 0,
          dst |-> [size |-> 0, family |-> "AF_INET", host |-> "",
                   sin_port |-> htons(port)]]

\* setup_destination_address: the endpoint written and the value returned.
\* sin_family and sin_port are written before inet_pton is tried; size is
\* written only after it succeeded.
setup_destination_address(host, port) ==
    IF IsNumericIPv4(host)
    THEN [ret |-> 1,
          dst |-> [size |-> SizeofSockaddrIn, family |-> "AF_INET",
                   host |-> host, sin_port |-> htons(port)]]
    ELSE [ret |-> 0,
          dst |-> [size |-> 0, family |-> "AF_INET", host |-> "",
                   sin_port |-> htons(port)]]

SetupAddress ==
    /\ pc = "addr"
    /\ LET r == setup_destination_address(AddressHost(variant), AddressPort(variant)) IN
       /\ dst' = r.dst
       /\ calls' = Append(calls, "setup_destination_address")
       /\ IF r.ret = 0
          THEN /\ out' = Append(out, "address_failed")
               /\ pc' = "finish"
               /\ is_mcast' = is_mcast
          ELSE /\ out' = out
               /\ pc' = "ctx"
               /\ is_mcast' = 0
    /\ UNCHANGED <<cfgVars, shVars, uri, attempt, wifi_connected, host_str, host_buf, keyshare, ctx,
                   session, optlist, pdu, result, have_response, wait_ms, leisure, res,
                   handler_registered, created, handler_calls, elapsed, attempts, handlerLog>>

\* ------------------------------------------------------- session establisher
\* ctx = coap_new_context(NULL)
NewContext ==
    /\ pc = "ctx"
    /\ calls' = Append(calls, "coap_new_context")
    /\ \E ok \in BOOLEAN :
         IF ok
         THEN /\ ctx' = "ctx"
              /\ created' = created \cup {"ctx"}
              /\ pc' = "session"
              /\ out' = out
         ELSE /\ ctx' = NULL
              /\ created' = created
              /\ pc' = "finish"
              /\ out' = Append(out, "context_failed")
    /\ UNCHANGED <<cfgVars, shVars, uri, attempt, wifi_connected, host_str, host_buf, keyshare, dst,
                   is_mcast, session, optlist, pdu, result, have_response,
                   wait_ms, leisure, res, handler_registered, handler_calls, elapsed, attempts, handlerLog>>

\* the session constructor each build calls for a scheme ("none": no branch)
SessionProto(v, dtls, scheme) ==
    IF v = "pqc"
    THEN (IF scheme = "coaps" THEN "DTLS" ELSE "UDP")
    ELSE IF scheme = "coap" THEN "UDP"
    ELSE IF scheme = "coap+tcp" THEN "TCP"
    ELSE IF v = "mbedtls" /\ dtls /\ scheme = "coaps" THEN "DTLS"
    ELSE "none"

SessionCall(proto) ==
    IF proto = "DTLS" THEN <<"coap_new_client_session_pki">>
    ELSE IF proto = "none" THEN <<>>
    ELSE <<"coap_new_client_session">>

\* ENABLE_MLKEM: the PQC client is built with it (header of main_pqc.c)
ENABLE_MLKEM(v) == v = "pqc"

\* #define PQC_KEY_EXCHANGE WOLFSSL_P384_ML_KEM_768
PQC_KEY_EXCHANGE == "WOLFSSL_P384_ML_KEM_768"

\* wolfSSL_UseKeyShare(ssl, group) results
KeyShareRets == {"WOLFSSL_SUCCESS", "BAD_FUNC_ARG"}

\* configure_mlkem_keyshare(ssl): the key share of ssl afterwards, given the
\* key share before and what wolfSSL_UseKeyShare returned
configure_mlkem_keyshare(ssl, before, ret) ==
    IF ssl = NULL THEN before
    ELSE IF ret = "WOLFSSL_SUCCESS" THEN PQC_KEY_EXCHANGE
    ELSE before

\* the key share after the session branch of main: under ENABLE_MLKEM the
\* branch only prints that ML-KEM will be negotiated; no variant calls
\* configure_mlkem_keyshare
KeyShareAfterSession(v, s, before) == before

\* the NULL test of the session left out
SessionMissing_never(s) == FALSE

\* if (!session)
SessionMissing(s) == s = NULL

\* the session created and no response handler registered on the context
NewSession_unregistered ==
    /\ pc = "session"
    /\ LET proto == SessionProto(variant, use_dtls, uri.scheme) IN
       /\ \E ok \in (IF proto = "none" THEN {FALSE} ELSE BOOLEAN) :
            /\ session' = IF ok THEN proto ELSE NULL
            /\ created' = IF ok THEN created \cup {"session"} ELSE created
       /\ calls' = calls \o SessionCall(proto)
       /\ IF SessionMissing(session')
          THEN /\ pc' = "finish"
               /\ out' = Append(out, "session_failed")
               /\ handler_registered' = handler_registered
          ELSE /\ pc' = "pdu"
               /\ out' = out
               /\ handler_registered' = handler_registered
    /\ keyshare' = KeyShareAfterSession(variant, session', keyshare)
    /\ UNCHANGED <<cfgVars, shVars, uri, attempt, wifi_connected, host_str, host_buf, dst,
                   is_mcast, ctx, optlist, pdu, result, have_response, wait_ms,
                   leisure, res, handler_calls, elapsed, attempts, handlerLog>>

\* session = coap_new_client_session*(..); coap_register_response_handler()
NewSession ==
    /\ pc = "session"
    /\ LET proto == SessionProto(variant, use_dtls, uri.scheme) IN
       /\ \E ok \in (IF proto = "none" THEN {FALSE} ELSE BOOLEAN) :
            /\ session' = IF ok THEN proto ELSE NULL
            /\ created' = IF ok THEN created \cup {"session"} ELSE created
       /\ calls' = calls \o SessionCall(proto)
                     \o (IF SessionMissing(session') THEN <<>>
                         ELSE <<"coap_register_response_handler">>)
       /\ IF SessionMissing(session')
          THEN /\ pc' = "finish"
               /\ out' = Append(out, "session_failed")
               /\ handler_registered' = handler_registered
          ELSE /\ pc' = "pdu"
               /\ out' = out
               /\ handler_registered' = TRUE
    /\ keyshare' = KeyShareAfterSession(variant, session', keyshare)
    /\ UNCHANGED <<cfgVars, shVars, uri, attempt, wifi_connected, host_str, host_buf, dst,
                   is_mcast, ctx, optlist, pdu, result, have_response, wait_ms,
                   leisure, res, handler_calls, elapsed, attempts, handlerLog>>

\* ----------------------------------------------------------- request builder
\* every message built non-confirmable
PduType_non(mcast) == "NON"

\* pdu = coap_pdu_init(CON or NON, GET, coap_new_message_id(), max size)
PduType(mcast) == IF mcast # 0 THEN "NON" ELSE "CON"

\* coap_new_message_id(session): an identifier issued by that session
coap_new_message_id(s) == s

PduInit ==
    /\ pc = "pdu"
    /\ calls' = Append(calls, "coap_pdu_init")
    /\ \E ok \in BOOLEAN :
         IF ok
         THEN /\ pdu' = [type |-> PduType(is_mcast), code |-> "GET",
                         mid |-> coap_new_message_id(session),
                         options |-> FALSE, state |-> "allocated"]
              /\ pc' = "opts"
              /\ out' = out
         ELSE /\ pdu' = NoPdu
              /\ pc' = "finish"
              /\ out' = Append(out, "pdu_failed")
    /\ UNCHANGED <<cfgVars, shVars, uri, attempt, wifi_connected, host_str, host_buf, keyshare, dst,
                   is_mcast, ctx, session, optlist, result, have_response,
                   wait_ms, leisure, res, handler_registered, created, handler_calls,
                   elapsed, attempts, handlerLog>>

\* len = coap_uri_into_options(&uri, &dst, &optlist, 1, scratch, BUFSIZE):
\* the list may be left empty on success and partly built on failure
UriIntoOptions ==
    /\ pc = "opts"
    /\ calls' = Append(calls, "coap_uri_into_options")
    /\ \E len \in {0, -1}, built \in BOOLEAN :
         /\ optlist' = IF built THEN "optlist" ELSE NULL
         /\ created' = IF built THEN created \cup {"optlist"} ELSE created
         /\ IF len # 0
            THEN /\ pc' = "finish"
                 /\ out' = Append(out, "options_failed")
            ELSE /\ pc' = "addopt"
                 /\ out' = out
    /\ UNCHANGED <<cfgVars, shVars, uri, attempt, wifi_connected, host_str, host_buf, keyshare, dst,
                   is_mcast, ctx, session, pdu, result, have_response, wait_ms, leisure,
                   res, handler_registered, handler_calls, elapsed, attempts, handlerLog>>

\* the failure of coap_add_optlist_pdu not followed by goto finish
AfterAddOptlist_fallthrough(r) == "send"

\* where main goes with the value coap_add_optlist_pdu returned
AfterAddOptlist(r) == IF r # 1 THEN "finish" ELSE "send"

\* if (optlist) { res = coap_add_optlist_pdu(pdu, &optlist); ... }
\* the list is copied into the PDU; it stays owned by main
AddOptlist ==
    /\ pc = "addopt"
    /\ IF optlist # NULL
       THEN /\ calls' = Append(calls, "coap_add_optlist_pdu")
            /\ \E r \in {0, 1} :
                 /\ res' = r
                 /\ pc' = AfterAddOptlist(r)
                 /\ pdu' = IF r = 1 THEN [pdu EXCEPT !.options = TRUE] ELSE pdu
                 /\ out' = IF r # 1 THEN Append(out, "add_options_failed") ELSE out
       ELSE /\ pc' = "send"
            /\ UNCHANGED <<calls, res, pdu, out>>
    /\ UNCHANGED <<cfgVars, shVars, uri, attempt, wifi_connected, host_str, host_buf, keyshare, dst,
                   is_mcast, ctx, session, optlist, result, have_response,
                   wait_ms, leisure, handler_registered, created, handler_calls, elapsed, attempts, handlerLog>>

\* ----------------------------------------------------------- exchange driver
\* the budget without the extra second
WaitBudget_noSlack(l) == l * 1000

\* (coap_session_get_default_leisure(session).integer_part + 1) * 1000
WaitBudget(l) == (l + 1) * 1000

\* coap_send(session, pdu): the PDU is consumed by the library either way
Send ==
    /\ pc = "send"
    /\ calls' = Append(calls, "coap_send")
    /\ pdu' = [pdu EXCEPT !.state = "sent"]
    /\ \E mid_ok \in BOOLEAN :
         IF mid_ok
         THEN /\ \E l \in Leisures :
                   /\ leisure' = l
                   /\ wait_ms' = WaitBudget(l)
              /\ pc' = "wait"
              /\ out' = out
         ELSE /\ UNCHANGED <<wait_ms, leisure>>
              /\ pc' = "finish"
              /\ out' = Append(out, "send_failed")
    /\ UNCHANGED <<cfgVars, shVars, uri, attempt, wifi_connected, host_str, host_buf, keyshare, dst,
                   is_mcast, ctx, session, optlist, result, have_response, res,
                   handler_registered, created, handler_calls, elapsed, attempts, handlerLog>>


\* responses delivered in one run, over all coap_io_process calls
MaxResponses == MaxDeliveries + 1

\* payloads a response may carry; "" is a response without data
Payloads == {"", "Hello World!"}

COAP_RESPONSE_OK == "COAP_RESPONSE_OK"

\* the handler made a counter: have_response++
response_handler_counter(hr) == hr + 1

\* response_handler: have_response = 1
response_handler(hr) == 1

\* response_handler: return COAP_RESPONSE_OK, whatever was received
response_handler_ret(p) == COAP_RESPONSE_OK

\* coap_get_data_large(received, &len, &databuf, ..): is there a body
coap_get_data_large(p) == p # ""

\* the handler printing nothing
response_handler_output_silent(p) == <<>>

\* response_handler: fwrite(databuf, 1, len, stdout) when there is a body
response_handler_output(p) == IF coap_get_data_large(p) THEN <<p>> ELSE <<>>

RECURSIVE Changes(_, _)
\* how often n deliveries starting from hr change have_response
Changes(hr, n) ==
    IF n = 0 THEN 0
    ELSE (IF response_handler(hr) # hr THEN 1 ELSE 0)
           + Changes(response_handler(hr), n - 1)

RECURSIVE Repeat(_, _)
\* the output of n deliveries of the same response
Repeat(s, n) == IF n = 0 THEN <<>> ELSE s \o Repeat(s, n - 1)

RECURSIVE Deliver(_, _)
\* n deliveries of a response by the library inside one coap_io_process
Deliver(hr, n) == IF n = 0 THEN hr ELSE Deliver(response_handler(hr), n - 1)


\* the loop test without the multicast disjunct
WaitLoopCond_responseOnly(v, hr, mcast) == hr = 0

\* while (have_response == 0 || is_mcast)     (PQC client: no is_mcast)
WaitLoopCond(v, hr, mcast) == hr = 0 \/ (v # "pqc" /\ mcast # 0)

WaitTest ==
    /\ pc = "wait"
    /\ pc' = IF WaitLoopCond(variant, have_response, is_mcast) THEN "io" ELSE "after"
    /\ UNCHANGED <<cfgVars, shVars, uri, attempt, wifi_connected, host_str, host_buf, keyshare, dst,
                   is_mcast, ctx, session, optlist, pdu, result, have_response,
                   wait_ms, res, leisure, handler_registered, created,
                   handler_calls, elapsed, calls, out, attempts, handlerLog>>

\* the comparison made strict
BudgetExhausted_strict(r, w) == r > w

\* (unsigned)res >= wait_ms, evaluated only under res >= 0, where the cast
\* keeps the value
BudgetExhausted(r, w) == r >= w

\* the budget accounting entered whatever coap_io_process returned
Accounted_anyReturn(r, w) == w > 0

\* if (res >= 0) { if (wait_ms > 0) { ... } }
Accounted(r, w) == r >= 0 /\ w > 0

\* res = coap_io_process(ctx, 500) and the budget accounting of the loop body
IoProcess ==
    /\ pc = "io"
    /\ \E r \in IoReturns, n \in 0..MaxDeliveries, p \in Payloads :
         /\ n = 0 => p = ""
         /\ handler_calls + n <= MaxResponses
         /\ res' = r
         /\ IF handler_registered
            THEN /\ handler_calls' = handler_calls + n
                 /\ have_response' = Deliver(have_response, n)
                 /\ hr_changes' = hr_changes + Changes(have_response, n)
                 /\ handler_rets' = IF n > 0
                                    THEN handler_rets \cup {response_handler_ret(p)}
                                    ELSE handler_rets
                 /\ received' = received \o Repeat(<<p>>, n)
                 /\ surfaced' = surfaced \o Repeat(response_handler_output(p), n)
            ELSE UNCHANGED <<handler_calls, have_response, handlerLog>>
         /\ elapsed' = IF r >= 0 THEN elapsed + r ELSE elapsed
         /\ IF Accounted(r, wait_ms)
            THEN IF BudgetExhausted(r, wait_ms)
                 THEN /\ out' = Append(out, "TIMEOUT")
                      /\ pc' = "after"
                      /\ wait_ms' = wait_ms
                 ELSE /\ wait_ms' = wait_ms - r
                      /\ pc' = "wait"
                      /\ out' = out
            ELSE /\ pc' = "wait"
                 /\ UNCHANGED <<wait_ms, out>>
    /\ UNCHANGED <<cfgVars, shVars, uri, attempt, wifi_connected, host_str, host_buf, keyshare, dst,
                   is_mcast, ctx, session, optlist, pdu, result, leisure,
                   handler_registered, created, calls, attempts>>

\* mbedTLS client, after the loop: result = EXIT_SUCCESS on both branches
AfterLoop_mbedtls ==
    /\ pc = "after"
    /\ variant = "mbedtls"
    /\ out' = Append(out, IF have_response # 0 THEN "SUCCESS" ELSE "FAILED")
    /\ result' = EXIT_SUCCESS
    /\ pc' = "finish"
    /\ UNCHANGED <<cfgVars, shVars, uri, attempt, wifi_connected, host_str, host_buf, keyshare, dst,
                   is_mcast, ctx, session, optlist, pdu, have_response,
                   wait_ms, res, leisure, handler_registered, created,
                   handler_calls, elapsed, calls, attempts, handlerLog>>

\* PQC client, after the loop: result is set only when a response was seen
AfterLoop_pqc ==
    /\ pc = "after"
    /\ variant = "pqc"
    /\ IF have_response # 0
       THEN /\ out' = Append(out, "SUCCESS")
            /\ result' = EXIT_SUCCESS
       ELSE /\ out' = Append(out, "FAILED")
            /\ result' = result
    /\ pc' = "finish"
    /\ UNCHANGED <<cfgVars, shVars, uri, attempt, wifi_connected, host_str, host_buf, keyshare, dst,
                   is_mcast, ctx, session, optlist, pdu, have_response,
                   wait_ms, res, leisure, handler_registered, created,
                   handler_calls, elapsed, calls, attempts, handlerLog>>

\* wolfSSL client, after the loop
AfterLoop_wolfssl ==
    /\ pc = "after"
    /\ variant = "wolfssl"
    /\ out' = IF have_response # 0 THEN Append(out, "SUCCESS") ELSE out
    /\ result' = EXIT_SUCCESS
    /\ pc' = "finish"
    /\ UNCHANGED <<cfgVars, shVars, uri, attempt, wifi_connected, host_str, host_buf, keyshare, dst,
                   is_mcast, ctx, session, optlist, pdu, have_response,
                   wait_ms, res, leisure, handler_registered, created,
                   handler_calls, elapsed, calls, attempts, handlerLog>>

\* --------------------------------------------------------- resource guardian
\* cleanup_resources without the release of the option list
cleanup_resources_leak(c, s, o) ==
    (IF s # NULL THEN <<"coap_session_release">> ELSE <<>>)
      \o (IF c # NULL THEN <<"coap_free_context">> ELSE <<>>)
      \o <<"coap_cleanup">>

\* cleanup_resources(ctx, session, optlist): the calls it makes, in order
cleanup_resources(c, s, o) ==
    (IF o # NULL THEN <<"coap_delete_optlist">> ELSE <<>>)
      \o (IF s # NULL THEN <<"coap_session_release">> ELSE <<>>)
      \o (IF c # NULL THEN <<"coap_free_context">> ELSE <<>>)
      \o <<"coap_cleanup">>

\* the cleanup path with the provider disconnected before the releases
Finish_disconnectFirst ==
    /\ pc = "finish"
    /\ calls' = calls \o <<"cleanup_resources", "wifi_disconnect">>
                  \o cleanup_resources(ctx, session, optlist)
    /\ pc' = "done"
    /\ UNCHANGED <<cfgVars, shVars, uri, attempt, wifi_connected, host_str, host_buf, keyshare, dst,
                   is_mcast, ctx, session, optlist, pdu, result, have_response,
                   wait_ms, res, leisure, handler_registered, created,
                   handler_calls, elapsed, out, attempts, handlerLog>>

\* finish: cleanup_resources(ctx, session, optlist); wifi_disconnect(); return
Finish ==
    /\ pc = "finish"
    /\ calls' = calls \o <<"cleanup_resources">>
                  \o cleanup_resources(ctx, session, optlist)
                  \o <<"wifi_disconnect">>
    /\ pc' = "done"
    /\ UNCHANGED <<cfgVars, shVars, uri, attempt, wifi_connected, host_str, host_buf, keyshare, dst,
                   is_mcast, ctx, session, optlist, pdu, result, have_response,
                   wait_ms, res, leisure, handler_registered, created,
                   handler_calls, elapsed, out, attempts, handlerLog>>

Next ==
    \/ ParseUri
    \/ WifiAttempt
    \/ WifiLoopExit
    \/ WifiOnce
    \/ HostCopy
    \/ SetupAddress
    \/ NewContext
    \/ NewSession
    \/ PduInit
    \/ UriIntoOptions
    \/ AddOptlist
    \/ Send
    \/ WaitTest
    \/ IoProcess
    \/ AfterLoop_mbedtls
    \/ AfterLoop_pqc
    \/ AfterLoop_wolfssl
    \/ Finish

Spec == Init /\ [][Next]_vars

\* main() is the only thread and keeps running until it returns
FairSpec == Spec /\ WF_vars(Next)

\* ------------------------------------------------------ the wait loop alone
\* The wait loop of the mains that test is_mcast, entered after a first
\* attempt connected and the request was sent, with is_mcast an input: main
\* assigns it the literal 0, so the multicast side of the loop is reached
\* from no run of main and is exercised here.
LoopEntryCalls ==
    <<"coap_startup", "coap_split_uri", "wifi_init", "connect_to_wifi",
      "wait_for_wifi_connection", "k_sleep_1000", "setup_destination_address",
      "coap_new_context", "coap_new_client_session",
      "coap_register_response_handler", "coap_pdu_init",
      "coap_uri_into_options", "coap_add_optlist_pdu", "coap_send">>

LoopInit ==
    /\ variant \in {"mbedtls", "wolfssl"}
    /\ use_dtls = FALSE
    /\ coap_uri = [scheme |-> "coap", host |-> "134.102.218.18"]
    /\ port_cfg = PortNotSet
    /\ pc = "wait"
    /\ uri = [scheme |-> "coap", host |-> "134.102.218.18",
              port |-> DefaultPort("coap")]
    /\ attempt = (IF variant = "mbedtls" THEN 2 ELSE 1)
    /\ wifi_connected = 1
    /\ host_str = (IF variant = "mbedtls" THEN "134.102.218.18" ELSE "")
    /\ host_buf = (IF variant = "mbedtls" THEN [copied |-> 14, nul |-> 14]
                                          ELSE NoHostBuf)
    /\ keyshare = NoKeyShare
    /\ dst = setup_destination_address("134.102.218.18", DefaultPort("coap")).dst
    /\ is_mcast \in {0, 1}
    /\ ctx = "ctx" /\ session = "UDP" /\ optlist = "optlist"
    /\ pdu = [type |-> PduType(is_mcast), code |-> "GET",
              mid |-> coap_new_message_id(session), options |-> TRUE,
              state |-> "sent"]
    /\ result = InitResult
    /\ have_response = InitHaveResponse
    /\ leisure \in Leisures
    /\ wait_ms = WaitBudget(leisure)
    /\ res = 1
    /\ handler_registered = TRUE
    /\ created = Resources
    /\ attempts = <<[connect |-> 0, waited |-> TRUE, ready |-> 0]>>
    /\ handler_calls = 0
    /\ hr_changes = 0
    /\ handler_rets = {}
    /\ received = <<>>
    /\ surfaced = <<>>
    /\ elapsed = 0
    /\ calls = LoopEntryCalls
    /\ out = <<>>
    /\ NoScriptRun

LoopNext ==
    \/ WaitTest
    \/ IoProcess
    \/ AfterLoop_mbedtls
    \/ AfterLoop_wolfssl
    \/ Finish

LoopSpec == LoopInit /\ [][LoopNext]_vars

\* ------------------------------------------------------ the build scripts
\* A command a script ran, or a line it printed: <<program, argument>>.
West(c) == <<"west", c>>
Echo(t) == <<"echo", t>>

\* the script ends with status st after running cmds
Exit(st, cmds) ==
    /\ sh_status' = st
    /\ sh_pc' = "exited"
    /\ sh_cmds' = sh_cmds \o cmds

\* init_workspace: a failing blob fetch is tolerated (|| true)
init_workspace == <<West("init"), West("update"), West("blobs fetch")>>

clean_build == << <<"rm", "build/">> >>

\* --- scripts/build.sh
\* the options of build.sh that take a value, and the variable each one sets
BuildShValueOpts ==
    [x \in {"--backend", "--wifi-ssid", "--wifi-pass"} |->
        IF x = "--backend" THEN "BACKEND"
        ELSE IF x = "--wifi-ssid" THEN "WIFI_SSID" ELSE "WIFI_PASS"]
BuildShFlagOpts ==
    [x \in {"--use-dtls", "--clean", "--init"} |->
        IF x = "--use-dtls" THEN "USE_DTLS"
        ELSE IF x = "--clean" THEN "DO_CLEAN" ELSE "DO_INIT"]

\* one turn of the argument loop
BuildShParse ==
    /\ script = "build.sh"
    /\ sh_pc = "parse"
    /\ argv # <<>>
    /\ LET a == Head(argv) IN
       IF a \in DOMAIN BuildShValueOpts
       THEN IF Len(argv) >= 2
            THEN /\ shvars' = [shvars EXCEPT ![BuildShValueOpts[a]] = argv[2]]
                 /\ argv' = SubSeq(argv, 3, Len(argv))
                 /\ UNCHANGED <<sh_pc, sh_cmds, sh_status>>
            ELSE \* shift 2 fails and set -e ends the script
                 /\ shvars' = [shvars EXCEPT ![BuildShValueOpts[a]] = ""]
                 /\ Exit(1, <<>>)
                 /\ UNCHANGED argv
       ELSE IF a \in DOMAIN BuildShFlagOpts
       THEN /\ shvars' = [shvars EXCEPT ![BuildShFlagOpts[a]] = TRUE]
            /\ argv' = Tail(argv)
            /\ UNCHANGED <<sh_pc, sh_cmds, sh_status>>
       ELSE IF a \in {"-h", "--help"}
       THEN /\ Exit(0, <<Echo("usage")>>)
            /\ UNCHANGED <<shvars, argv>>
       ELSE /\ Exit(1, <<Echo("Unknown option"), Echo("usage")>>)
            /\ UNCHANGED <<shvars, argv>>
    /\ UNCHANGED <<mainVars, script, environ>>

\* [[ -z "$WIFI_SSID" || -z "$WIFI_PASS" ]]
CredentialsMissing(ssid, pass) == ssid = "" \/ pass = ""

\* "Validate required arguments"
BuildShValidate ==
    /\ script = "build.sh"
    /\ sh_pc = "parse"
    /\ argv = <<>>
    /\ IF shvars.BACKEND = ""
       THEN Exit(1, <<Echo("ERROR: --backend is required"), Echo("usage")>>)
       ELSE IF shvars.BACKEND \notin {"wolfssl", "mbedtls"}
       THEN Exit(1, <<Echo("ERROR: --backend must be 'wolfssl' or 'mbedtls'")>>)
       ELSE IF CredentialsMissing(shvars.WIFI_SSID, shvars.WIFI_PASS)
       THEN Exit(1, <<Echo("ERROR: --wifi-ssid and --wifi-pass are required"),
                      Echo("usage")>>)
       ELSE /\ sh_pc' = "init"
            /\ UNCHANGED <<sh_cmds, sh_status>>
    /\ UNCHANGED <<mainVars, script, argv, environ, shvars>>

\* if [ "$DO_INIT" = true ]: initialise and stop
BuildShInit ==
    /\ script = "build.sh"
    /\ sh_pc = "init"
    /\ IF shvars.DO_INIT
       THEN /\ Exit(0, <<Echo("Initializing workspace...")>> \o init_workspace
                       \o <<Echo("Workspace initialized!")>>)
            /\ environ' = [environ EXCEPT !.workspace = TRUE]
       ELSE /\ sh_pc' = "workspace"
            /\ UNCHANGED <<sh_cmds, sh_status, environ>>
    /\ UNCHANGED <<mainVars, script, argv, shvars>>

\* --clean, "Initialize workspace if needed", west zephyr-export
BuildShWorkspace ==
    /\ script = "build.sh"
    /\ sh_pc = "workspace"
    /\ sh_cmds' = sh_cmds
                  \o (IF shvars.DO_CLEAN THEN clean_build ELSE <<>>)
                  \o (IF ~environ.workspace THEN init_workspace
                                            ELSE <<West("update")>>)
                  \o <<West("zephyr-export")>>
    /\ environ' = [environ EXCEPT !.workspace = TRUE]
    /\ sh_pc' = "build"
    /\ UNCHANGED <<mainVars, script, argv, shvars, sh_status>>

\* the build proper
BuildShBuild ==
    /\ script = "build.sh"
    /\ sh_pc = "build"
    /\ Exit(0, <<Echo("Building"), West("build"), Echo("Build complete!")>>)
    /\ UNCHANGED <<mainVars, script, argv, environ, shvars>>

\* --- scripts/build_mbedtls_client.sh and scripts/build_wolfssl_client.sh
ClientScripts == {"build_mbedtls_client.sh", "build_wolfssl_client.sh"}

\* for arg in "$@": clean, init, anything else prints the usage
ClientShParse ==
    /\ script \in ClientScripts
    /\ sh_pc = "parse"
    /\ argv # <<>>
    /\ LET a == Head(argv) IN
       IF a = "clean"
       THEN /\ shvars' = [shvars EXCEPT !.DO_CLEAN = TRUE]
            /\ argv' = Tail(argv)
            /\ UNCHANGED <<sh_pc, sh_cmds, sh_status>>
       ELSE IF a = "init"
       THEN /\ shvars' = [shvars EXCEPT !.DO_INIT = TRUE]
            /\ argv' = Tail(argv)
            /\ UNCHANGED <<sh_pc, sh_cmds, sh_status>>
       ELSE /\ Exit(1, <<Echo("usage")>>)
            /\ UNCHANGED <<shvars, argv>>
    /\ UNCHANGED <<mainVars, script, environ>>

\* clean, then "Initialize workspace if needed (standard Zephyr way)"
ClientShWorkspace ==
    /\ script \in ClientScripts
    /\ sh_pc = "parse"
    /\ argv = <<>>
    /\ LET cleaned == sh_cmds \o (IF shvars.DO_CLEAN THEN clean_build ELSE <<>>) IN
       IF ~environ.workspace
       THEN /\ sh_cmds' = cleaned \o init_workspace
            /\ sh_pc' = "export"
            /\ UNCHANGED sh_status
       ELSE IF shvars.DO_INIT
       THEN /\ sh_cmds' = cleaned \o init_workspace
                          \o <<Echo("Workspace initialized!")>>
            /\ sh_pc' = "exited"
            /\ sh_status' = 0
       ELSE /\ sh_cmds' = cleaned \o <<West("update")>>
            /\ sh_pc' = "export"
            /\ UNCHANGED sh_status
    /\ environ' = [environ EXCEPT !.workspace = TRUE]
    /\ UNCHANGED <<mainVars, script, argv, shvars>>

\* "Export Zephyr environment"
ClientShExport ==
    /\ script \in ClientScripts
    /\ sh_pc = "export"
    /\ sh_cmds' = sh_cmds \o <<West("zephyr-export")>>
    /\ sh_pc' = (IF script = "build_mbedtls_client.sh" THEN "validate" ELSE "build")
    /\ UNCHANGED <<mainVars, script, argv, environ, shvars, sh_status>>

\* "Validate WiFi credentials are provided" (the mbedTLS script only)
ClientShValidate ==
    /\ script = "build_mbedtls_client.sh"
    /\ sh_pc = "validate"
    /\ IF CredentialsMissing(shvars.WIFI_SSID, shvars.WIFI_PASS)
       THEN Exit(1, <<Echo("ERROR: WiFi credentials are required!")>>)
       ELSE /\ sh_pc' = "build"
            /\ UNCHANGED <<sh_cmds, sh_status>>
    /\ UNCHANGED <<mainVars, script, argv, environ, shvars>>

ClientShBuild ==
    /\ script \in ClientScripts
    /\ sh_pc = "build"
    /\ Exit(0, <<Echo("Building"), West("build"), Echo("build complete!")>>)
    /\ UNCHANGED <<mainVars, script, argv, environ, shvars>>

\* --- scripts/server/generate_certs.sh
OPENSSL_MIN_VERSION == 35
\* versions of the OpenSSL found on the host: none, 3.0, 3.5, 3.6
OpensslVersions == {0, 30, 35, 36}

\* the minimum version itself taken as too old
version_gte_strict(a, b) == a > b

\* version_gte: printf '%s\n%s' "$2" "$1" | sort -V -C
version_gte(a, b) == a >= b

VALID_TYPES == {"rsa", "ecc", "ed25519", "ml-dsa-44", "ml-dsa-65", "ml-dsa-87", "all"}

\* [[ " $VALID_TYPES " =~ " $CERT_TYPE " ]]
ValidType(t) == t \in VALID_TYPES

\* one turn of the argument loop; usage ends the script with status 0
CertsParse ==
    /\ script = "generate_certs.sh"
    /\ sh_pc = "parse"
    /\ argv # <<>>
    /\ LET a == Head(argv) IN
       IF a \in {"--type", "--output"}
       THEN IF Len(argv) >= 2
            THEN /\ shvars' = [shvars EXCEPT ![IF a = "--type" THEN "CERT_TYPE"
                                                ELSE "OUTPUT_DIR"] = argv[2]]
                 /\ argv' = SubSeq(argv, 3, Len(argv))
                 /\ UNCHANGED <<sh_pc, sh_cmds, sh_status>>
            ELSE /\ shvars' = [shvars EXCEPT ![IF a = "--type" THEN "CERT_TYPE"
                                                ELSE "OUTPUT_DIR"] = ""]
                 /\ Exit(1, <<>>)
                 /\ UNCHANGED argv
       ELSE IF a = "--install-openssl"
       THEN /\ shvars' = [shvars EXCEPT !.INSTALL_OPENSSL = "yes"]
            /\ argv' = Tail(argv)
            /\ UNCHANGED <<sh_pc, sh_cmds, sh_status>>
       ELSE IF a \in {"-h", "--help"}
       THEN /\ Exit(0, <<Echo("usage")>>)
            /\ UNCHANGED <<shvars, argv>>
       ELSE /\ Exit(0, << <<"log_error", "Unknown option">>, Echo("usage")>>)
            /\ UNCHANGED <<shvars, argv>>
    /\ UNCHANGED <<mainVars, script, environ>>

\* "Validate certificate type"
CertsValidate ==
    /\ script = "generate_certs.sh"
    /\ sh_pc = "parse"
    /\ argv = <<>>
    /\ IF ~ValidType(shvars.CERT_TYPE)
       THEN Exit(1, << <<"log_error", "Invalid certificate type">> >>)
       ELSE /\ sh_pc' = "main"
            /\ UNCHANGED <<sh_cmds, sh_status>>
    /\ UNCHANGED <<mainVars, script, argv, environ, shvars>>

Generate(t) == <<"generate", t>>
MlDsaTypes == {"ml-dsa-44", "ml-dsa-65", "ml-dsa-87"}

\* main: optional install, find_openssl, then the generators of the type;
\* generate_ml_dsa returns 1 on an OpenSSL older than 3.5 and set -e ends
\* the script there
CertsMain ==
    /\ script = "generate_certs.sh"
    /\ sh_pc = "main"
    /\ LET version == IF shvars.INSTALL_OPENSSL = "yes" THEN 36 ELSE environ.openssl
           t == shvars.CERT_TYPE
       IN /\ environ' = [environ EXCEPT !.openssl = version]
          /\ IF version = 0
             THEN Exit(1, << <<"log_error", "OpenSSL not found!">> >>)
             ELSE IF t \in MlDsaTypes
             THEN IF version_gte(version, OPENSSL_MIN_VERSION)
                  THEN Exit(0, <<Generate(t)>>)
                  ELSE Exit(1, << <<"log_error", "requires OpenSSL 3.5+">> >>)
             ELSE IF t = "all"
             THEN Exit(0, <<Generate("rsa"), Generate("ecc"), Generate("ed25519")>>
                          \o (IF version_gte(version, OPENSSL_MIN_VERSION)
                              THEN <<Generate("ml-dsa-44"), Generate("ml-dsa-65"),
                                     Generate("ml-dsa-87")>>
                              ELSE << <<"log_warn", "Skipping ML-DSA certificates">> >>))
             ELSE Exit(0, <<Generate(t)>>)
    /\ UNCHANGED <<mainVars, script, argv, shvars>>

\* --- the group list of the patched coap_wolfssl.c (scripts/server/build_libcoap.sh)
Algorithms == {"KYBER_LEVEL5", "P384_KYBER_LEVEL3"}

\* -DCOAP_WOLFSSL_GROUPS: the --algorithm of the build, or the empty string
CompiledGroups(DEFAULT_ALGORITHM) ==
    IF DEFAULT_ALGORITHM # "" THEN DEFAULT_ALGORITHM ELSE ""

getenv(name) == IF environ[name].set THEN environ[name].value ELSE NULL

\* the compiled-in default winning over the environment
ResolveGroups_compiledFirst(env_groups, compiled) ==
    IF compiled # "" THEN compiled
    ELSE IF env_groups # NULL THEN env_groups ELSE ""

\* groups = (env_groups && *env_groups) ? env_groups : COAP_WOLFSSL_GROUPS
ResolveGroups(env_groups, compiled) ==
    IF env_groups # NULL /\ env_groups # "" THEN env_groups ELSE compiled

\* the block the patch puts in place of wolfSSL_CTX_set1_groups_list(ctx,
\* COAP_WOLFSSL_GROUPS): the list is set only if (groups && *groups)
CoapSetUserPrefs ==
    /\ script = "coap_set_user_prefs"
    /\ sh_pc = "call"
    /\ LET groups == ResolveGroups(getenv("COAP_WOLFSSL_GROUPS"),
                                   shvars.COAP_WOLFSSL_GROUPS)
       IN IF groups # NULL /\ groups # ""
          THEN Exit(0, << <<"wolfSSL_CTX_set1_groups_list", groups>> >>)
          ELSE Exit(0, <<>>)
    /\ UNCHANGED <<mainVars, script, argv, environ, shvars>>

\* --- wolfssl/config-wolfssl-libcoap-pqc.h, as the preprocessor reads it
PqcConfigHeader == "config-wolfssl-libcoap-pqc.h"

\* #define MLKEM_LEVEL 3
DefaultMlkemLevel == 3
\* the values the MLKEM_LEVEL line is edited to
MlkemLevels == 0..6

MlKemSets == {512, 768, 1024}
NoMlKemMacro ==
    [n \in MlKemSets |-> IF n = 512 THEN "WOLFSSL_NO_ML_KEM_512"
                         ELSE IF n = 768 THEN "WOLFSSL_NO_ML_KEM_768"
                         ELSE "WOLFSSL_NO_ML_KEM_1024"]

\* level 3 keeping ML-KEM-1024 instead of ML-KEM-768
MlKemDisabled_level3(level) ==
    IF level = 1 THEN <<768, 1024>>
    ELSE IF level = 3 THEN <<512, 768>>
    ELSE <<512, 768>>

\* #if MLKEM_LEVEL == 1 ... #elif MLKEM_LEVEL == 3 ... #elif MLKEM_LEVEL == 5:
\* the parameter sets each branch switches off, in the order of its #defines
MlKemDisabled(level) ==
    IF level = 1 THEN <<768, 1024>>
    ELSE IF level = 3 THEN <<512, 1024>>
    ELSE <<512, 768>>

Define(m) == <<"#define", m>>

\* the ML-KEM section of the header
PreprocessPqcConfig ==
    /\ script = PqcConfigHeader
    /\ sh_pc = "cpp"
    /\ IF ~shvars.ENABLE_MLKEM
       THEN Exit(0, <<>>)
       ELSE IF shvars.MLKEM_LEVEL \notin {1, 3, 5}
       THEN Exit(1, <<Define("WOLFSSL_HAVE_MLKEM"),
                      <<"#error", "Invalid MLKEM_LEVEL: must be 1, 3, or 5">> >>)
       ELSE Exit(0, <<Define("WOLFSSL_HAVE_MLKEM")>>
                    \o [i \in 1..2 |->
                          Define(NoMlKemMacro[MlKemDisabled(shvars.MLKEM_LEVEL)[i]])])
    /\ UNCHANGED <<mainVars, script, argv, environ, shvars>>

\* the ML-KEM parameter set each key exchange group of main_pqc.c is built on
MlKemOf ==
    [WOLFSSL_ML_KEM_512 |-> 512, WOLFSSL_ML_KEM_768 |-> 768,
     WOLFSSL_ML_KEM_1024 |-> 1024, WOLFSSL_P256_ML_KEM_512 |-> 512,
     WOLFSSL_P384_ML_KEM_768 |-> 768, WOLFSSL_P521_ML_KEM_1024 |-> 1024]

\* --- the invocations
Pick(opt, values) == {<<>>} \cup {<<opt, v>> : v \in values}

BuildShInvocations ==
    {b \o s \o w \o f :
        b \in Pick("--backend", {"mbedtls", "wolfssl", "openssl"}),
        s \in Pick("--wifi-ssid", {"MyWiFi", ""}),
        w \in Pick("--wifi-pass", {"password"}),
        f \in {<<>>, <<"--init">>, <<"--clean">>, <<"--use-dtls">>, <<"--help">>,
               <<"--flash">>, <<"--backend">>}}

ClientShInvocations == {<<>>, <<"init">>, <<"clean">>, <<"clean", "init">>, <<"build">>}

\* README: "Generating Certificates" and "Over DTLS"
ReadmeCertsInvocations ==
    {<<"--type", "rsa">>, <<"--type", "ecc">>,
     <<"--type", "ecc", "--variant", "p384">>,
     <<"--type", "ecc", "--variant", "ed25519">>,
     <<"--type", "mldsa">>, <<"--type", "mldsa", "--variant", "mldsa87">>,
     <<"--check-openssl">>, <<"--output-dir", "./certs">>,
     <<"--openssl-bin", "/opt/openssl-3.6/bin/openssl">>,
     <<>>, <<"-t", "ecc">>, <<"-t", "rsa">>}

\* the script's own usage text
UsageCertsInvocations ==
    {<<>>, <<"--type", "rsa">>, <<"--type", "ml-dsa-65">>, <<"--type", "all">>,
     <<"--type", "all", "--output", "./my-certs">>,
     <<"--install-openssl", "--type", "ml-dsa-65">>, <<"--help">>, <<"--type">>,
     <<"--type", "ml-dsa-44">>, <<"--type", "ml-dsa-87">>}

EnvGroups == {Unset} \cup {[set |-> TRUE, value |-> g] : g \in Algorithms \cup {""}}

ScriptInit ==
    /\ MainInit
    /\ variant = "mbedtls" /\ use_dtls = FALSE /\ port_cfg = PortNotSet
    /\ coap_uri = [scheme |-> "coap", host |-> "134.102.218.18"]
    /\ script \in {"build.sh", "generate_certs.sh", "coap_set_user_prefs",
                   PqcConfigHeader} \cup ClientScripts
    /\ sh_cmds = <<>>
    /\ sh_status = Running
    /\ sh_pc = (IF script = "coap_set_user_prefs" THEN "call"
                ELSE IF script = PqcConfigHeader THEN "cpp" ELSE "parse")
    /\ argv \in (IF script = "build.sh" THEN BuildShInvocations
                 ELSE IF script \in ClientScripts THEN ClientShInvocations
                 ELSE IF script = "generate_certs.sh"
                 THEN ReadmeCertsInvocations \cup UsageCertsInvocations
                 ELSE {<<>>})
    /\ \E ssid \in {"", "MyWiFi"}, pass \in {"", "password"}, ws \in BOOLEAN,
          ossl \in OpensslVersions, eg \in EnvGroups, alg \in Algorithms \cup {""},
          mlkem \in (IF script = PqcConfigHeader THEN BOOLEAN ELSE {FALSE}),
          level \in (IF script = PqcConfigHeader THEN MlkemLevels ELSE {0}) :
          /\ environ =
                [cmdline |-> argv,
                 WIFI_SSID |-> IF script \in ClientScripts THEN ssid ELSE "",
                 WIFI_PASS |-> IF script \in ClientScripts THEN pass ELSE "",
                 COAP_WOLFSSL_GROUPS |->
                    IF script = "coap_set_user_prefs" THEN eg ELSE Unset,
                 workspace |->
                    IF script \in ClientScripts \cup {"build.sh"} THEN ws ELSE FALSE,
                 openssl |-> IF script = "generate_certs.sh" THEN ossl ELSE 0]
          /\ shvars =
                [NoShVars EXCEPT
                    \* WIFI_SSID=${WIFI_SSID:-""} of the mbedTLS script
                    !.WIFI_SSID = IF script = "build_mbedtls_client.sh"
                                  THEN environ.WIFI_SSID ELSE "",
                    !.WIFI_PASS = IF script = "build_mbedtls_client.sh"
                                  THEN environ.WIFI_PASS ELSE "",
                    !.CERT_TYPE = IF script = "generate_certs.sh" THEN "ecc" ELSE "",
                    !.OUTPUT_DIR = IF script = "generate_certs.sh" THEN "./certs"
                                   ELSE "",
                    !.COAP_WOLFSSL_GROUPS =
                        IF script = "coap_set_user_prefs" THEN CompiledGroups(alg)
                        ELSE "",
                    !.ENABLE_MLKEM = mlkem,
                    !.MLKEM_LEVEL = level]

ScriptNext ==
    \/ BuildShParse
    \/ BuildShValidate
    \/ BuildShInit
    \/ BuildShWorkspace
    \/ BuildShBuild
    \/ ClientShParse
    \/ ClientShWorkspace
    \/ ClientShExport
    \/ ClientShValidate
    \/ ClientShBuild
    \/ CertsParse
    \/ CertsValidate
    \/ CertsMain
    \/ CoapSetUserPrefs
    \/ PreprocessPqcConfig

ScriptSpec == ScriptInit /\ [][ScriptNext]_vars

\* ------------------------------------------------------ claims on the scripts
Exited == sh_pc = "exited"
WestCommands == {West(c) : c \in {"init", "update", "blobs fetch", "zephyr-export",
                                   "build"}}
RanWest == \E i \in DOMAIN sh_cmds : sh_cmds[i] \in WestCommands
RanInitWorkspace ==
    \E i \in 1..(Len(sh_cmds) - 2) : SubSeq(sh_cmds, i, i + 2) = init_workspace

\* C22: the patched library sets the group list to the value of the
\* environment variable COAP_WOLFSSL_GROUPS when it is set and not empty
\* (also when a compiled-in default exists), else to the compiled-in
\* COAP_WOLFSSL_GROUPS, and sets no group list when that value is empty.
C22_RuntimeGroupsFirst ==
    (script = "coap_set_user_prefs" /\ Exited) =>
        LET env == environ.COAP_WOLFSSL_GROUPS
            resolved == IF env.set /\ env.value # "" THEN env.value
                        ELSE shvars.COAP_WOLFSSL_GROUPS
        IN IF resolved = ""
           THEN sh_cmds = <<>>
           ELSE sh_cmds = << <<"wolfSSL_CTX_set1_groups_list", resolved>> >>

\* both values present and different: the runtime one was set
C22_Witness ==
    /\ script = "coap_set_user_prefs" /\ Exited
    /\ environ.COAP_WOLFSSL_GROUPS = [set |-> TRUE, value |-> "P384_KYBER_LEVEL3"]
    /\ shvars.COAP_WOLFSSL_GROUPS = "KYBER_LEVEL5"
    /\ sh_cmds = << <<"wolfSSL_CTX_set1_groups_list", "P384_KYBER_LEVEL3">> >>

\* nothing resolved: no group list set
C22_WitnessEmpty ==
    /\ script = "coap_set_user_prefs" /\ Exited
    /\ environ.COAP_WOLFSSL_GROUPS = [set |-> TRUE, value |-> ""]
    /\ shvars.COAP_WOLFSSL_GROUPS = ""
    /\ sh_cmds = <<>>

\* the credentials a build script works with once its arguments are read
ScriptSsid == IF script = "build.sh" THEN shvars.WIFI_SSID ELSE environ.WIFI_SSID
ScriptPass == IF script = "build.sh" THEN shvars.WIFI_PASS ELSE environ.WIFI_PASS
HelpAsked == script = "build.sh" /\ sh_cmds = <<Echo("usage")>>

\* C23: with WIFI_SSID or WIFI_PASS empty, a client build script runs no
\* west command and ends with a non-zero status.
C23_CredentialsBeforeWest ==
    (/\ script \in ClientScripts \cup {"build.sh"}
     /\ \/ sh_pc # "parse"
        \/ script \in ClientScripts
     /\ ScriptSsid = "" \/ ScriptPass = "")
    => /\ ~RanWest
       /\ Exited /\ ~HelpAsked => sh_status # 0

\* C24: build.sh --backend <valid> --init without WiFi options initialises
\* the workspace and ends with status 0 without building.
C24_InitWithoutCredentials ==
    (/\ script = "build.sh"
     /\ environ.cmdline \in {<<"--backend", b, "--init">> : b \in {"mbedtls", "wolfssl"}}
     /\ Exited)
    => /\ sh_status = 0
       /\ RanInitWorkspace
       /\ ~\E i \in DOMAIN sh_cmds : sh_cmds[i] = West("build")

\* C25: a client build script started with the argument init initialises
\* the workspace and ends with status 0 without running west build, whether
\* or not the workspace existed before.
C25_InitArgumentStops ==
    (script \in ClientScripts /\ environ.cmdline = <<"init">> /\ Exited)
    => /\ sh_status = 0
       /\ RanInitWorkspace
       /\ ~\E i \in DOMAIN sh_cmds : sh_cmds[i] = West("build")

\* C26: every invocation of generate_certs.sh that the README documents ends
\* without an unknown-option or invalid-type result, and with certificates
\* generated when a usable OpenSSL is installed.
C26_ReadmeInvocationsAccepted ==
    (/\ script = "generate_certs.sh"
     /\ environ.cmdline \in ReadmeCertsInvocations
     /\ Exited)
    => /\ ~\E i \in DOMAIN sh_cmds :
            sh_cmds[i] \in {<<"log_error", "Unknown option">>,
                            <<"log_error", "Invalid certificate type">>}
       /\ (environ.openssl = 36 /\ environ.cmdline # <<"--check-openssl">>)
            => \E i \in DOMAIN sh_cmds : sh_cmds[i][1] = "generate"

TypeOK ==
    /\ pc \in {"start", "wifi", "host", "addr", "ctx", "session", "pdu",
               "opts", "addopt", "send", "wait", "io", "after", "finish", "done"}
    /\ have_response \in {0, 1}
    /\ result \in {EXIT_SUCCESS, EXIT_FAILURE}
    /\ wait_ms \in Nat
    /\ created \subseteq Resources


\* ------------------------------------------------------------------ helpers
Last(s) == s[Len(s)]

\* the provider outcome of one connect attempt was "ready"
AttemptOk(a) == a.connect >= 0 /\ a.waited /\ a.ready >= 0

ReleaseCall(r) ==
    CASE r = "optlist" -> "coap_delete_optlist"
      [] r = "session" -> "coap_session_release"
      [] r = "ctx"     -> "coap_free_context"

\* the run went through the wait loop: the send succeeded
EnteredWaitLoop == Has(calls, "coap_send") /\ ~Has(out, "send_failed")

\* ---------------------------------------------------------------- claim C1
\* C1: the cleanup path is executed exactly once per run, not before main
\* reaches finish; every one of option list, session and context that was
\* created is released exactly once by the time main returns, and a resource
\* that was never created is never released.
C1_CleanupExactlyOnce ==
    /\ Count(calls, "cleanup_resources") = (IF pc = "done" THEN 1 ELSE 0)
    /\ Count(calls, "coap_cleanup") = (IF pc = "done" THEN 1 ELSE 0)
    /\ \A r \in Resources :
         Count(calls, ReleaseCall(r)) = (IF pc = "done" /\ r \in created THEN 1 ELSE 0)

\* a run in which the option list was built, could not be attached, and all
\* three resources had to be released
C1_Witness ==
    /\ pc = "done"
    /\ created = Resources
    /\ Has(out, "add_options_failed")
    /\ Has(calls, "coap_delete_optlist")

\* ---------------------------------------------------------------- claim C2
\* C2: in the retry loop at most 3 connect attempts are made; the run is
\* connected only when connect_to_wifi and wait_for_wifi_connection both
\* returned >= 0 in the last attempt made; no attempt follows a successful
\* one; the exhausted branch is taken only after 3 failed attempts and then
\* the run returns EXIT_FAILURE with no context and no session created.
C2_BoundedRetry ==
    variant \in RetryVariants =>
      /\ Len(attempts) <= 3
      /\ Count(calls, "connect_to_wifi") = Len(attempts)
      /\ \A i \in DOMAIN attempts : AttemptOk(attempts[i]) => i = Len(attempts)
      /\ (wifi_connected = 1) <=> (attempts # <<>> /\ AttemptOk(Last(attempts)))
      /\ Has(out, "wifi_exhausted") =>
           /\ Len(attempts) = 3
           /\ \A i \in DOMAIN attempts : ~AttemptOk(attempts[i])
           /\ result = EXIT_FAILURE
           /\ created = {}
           /\ ~Has(calls, "coap_new_context")
           /\ pc \in {"finish", "done"}
      /\ (pc # "wifi" /\ Len(attempts) = 3 /\ ~AttemptOk(attempts[3])) =>
           Has(out, "wifi_exhausted")

\* three failed attempts, the run ended through the exhausted branch
C2_Witness ==
    /\ variant \in RetryVariants
    /\ pc = "done"
    /\ Len(attempts) = 3
    /\ Has(out, "wifi_exhausted")
    /\ result = EXIT_FAILURE

\* ---------------------------------------------------------------- claim C3
\* C3: in every client variant, the wolfSSL client included, a failed first
\* connect attempt is followed by a further attempt, and the run ends with a
\* connectivity failure only after 3 failed attempts.
ConnectivityFailed ==
    \/ Has(out, "wifi_exhausted")
    \/ Has(out, "wifi_wait_failed")
    \/ Has(out, "wifi_connect_failed")

C3_RetryInEveryVariant ==
    /\ (pc # "wifi" /\ attempts # <<>> /\ ~AttemptOk(attempts[1])) => Len(attempts) >= 2
    /\ ConnectivityFailed => Len(attempts) = 3

\* ---------------------------------------------------------------- claim C4
\* C4: between two consecutive connect attempts there is exactly one
\* wifi_disconnect followed by exactly one 2000 ms delay, in that order; no
\* retry delay is taken after a successful attempt or after the third failed
\* attempt.
ConnectPositions == Positions(calls, "connect_to_wifi")

\* the calls made strictly between positions i and j, the readiness wait of
\* the attempt at i left out
Between(i, j) ==
    SelectSeq(SubSeq(calls, i + 1, j - 1),
              LAMBDA c : c # "wait_for_wifi_connection")

C4_DisconnectThenDelay ==
    /\ \A i, j \in ConnectPositions :
         (i < j /\ \A k \in ConnectPositions : ~(i < k /\ k < j)) =>
            Between(i, j) = <<"wifi_disconnect", "k_sleep_2000">>
    /\ Count(calls, "k_sleep_2000") <= 2
    /\ (pc # "wifi" /\ ConnectPositions # {}) =>
         /\ Count(calls, "k_sleep_2000") = Cardinality(ConnectPositions) - 1
         /\ \A i \in Positions(calls, "k_sleep_2000") :
              \E j \in ConnectPositions : j > i

\* three attempts were made, with two retry delays between them
C4_Witness ==
    /\ pc = "done"
    /\ Cardinality(ConnectPositions) = 3
    /\ Count(calls, "k_sleep_2000") = 2
    /\ Count(calls, "wifi_disconnect") = 3


\* ---------------------------------------------------------------- claim C5
\* C5: in every client variant a run whose setup and send succeeded and whose
\* wait budget ran out with no response recorded returns EXIT_SUCCESS, with
\* session and context released.
C5_TimeoutReturnsSuccess ==
    (pc = "done" /\ Has(out, "TIMEOUT") /\ have_response = 0) =>
       /\ result = EXIT_SUCCESS
       /\ Has(calls, "coap_session_release")
       /\ Has(calls, "coap_free_context")

\* ---------------------------------------------------------------- claim C6
\* C6: with B = (leisure + 1) * 1000 and the response handler never invoked,
\* the wait loop is left at the first coap_io_process call at which the sum
\* of the non-negative returned times is >= B and not before; the message is
\* not sent again; the run ends with the timeout diagnostic, with no failure
\* and no success diagnostic.
FailureDiags ==
    {"parse_failed", "wifi_exhausted", "wifi_wait_failed", "wifi_connect_failed",
     "host_too_long", "address_failed", "context_failed", "session_failed",
     "pdu_failed", "options_failed", "add_options_failed", "send_failed"}

C6_TimeoutBoundary ==
    (EnteredWaitLoop /\ handler_calls = 0) =>
       /\ Count(calls, "coap_send") = 1
       /\ pc \in {"wait", "io"} =>
            /\ elapsed < WaitBudget(leisure)
            /\ ~Has(out, "TIMEOUT")
       /\ pc \in {"after", "finish", "done"} =>
            /\ elapsed >= WaitBudget(leisure)
            /\ res >= 0
            /\ elapsed - res < WaitBudget(leisure)
            /\ Count(out, "TIMEOUT") = 1
            /\ ~Has(out, "SUCCESS")
            /\ \A d \in FailureDiags : ~Has(out, d)

\* the sum of the returned times met the budget exactly, the run timed out
C6_Witness ==
    /\ pc = "done"
    /\ EnteredWaitLoop
    /\ handler_calls = 0
    /\ elapsed = WaitBudget(leisure)
    /\ Has(out, "TIMEOUT")

\* ---------------------------------------------------------------- claim C7
\* C7: every run terminates: whatever the provider calls return, main leaves
\* the wait loop, reaches the cleanup path and returns.
C7_EveryRunTerminates == <>(pc = "done")

\* ---------------------------------------------------------------- claim C8
\* C8: a run that takes a failure branch before the wait loop goes straight
\* to the cleanup path: it performs no call of a later stage, takes no other
\* failure branch, and returns EXIT_FAILURE.
StageOf ==
    [coap_startup |-> 0, coap_split_uri |-> 0,
     wifi_init |-> 1, connect_to_wifi |-> 1, wait_for_wifi_connection |-> 1,
     wifi_disconnect |-> 1, k_sleep_2000 |-> 1,
     k_sleep_1000 |-> 2,
     setup_destination_address |-> 3,
     coap_new_context |-> 4,
     coap_new_client_session |-> 5, coap_new_client_session_pki |-> 5,
     coap_register_response_handler |-> 6, coap_pdu_init |-> 6,
     coap_uri_into_options |-> 7,
     coap_add_optlist_pdu |-> 8,
     coap_send |-> 9]

\* the stage a call belongs to; the calls of the cleanup path come last
CallStage(c) == IF c \in DOMAIN StageOf THEN StageOf[c] ELSE 10

\* the stage at which a failure branch is taken
FailStage(d) ==
    CASE d = "parse_failed" -> 0
      [] d \in {"wifi_exhausted", "wifi_wait_failed", "wifi_connect_failed"} -> 1
      [] d = "host_too_long" -> 2
      [] d = "address_failed" -> 3
      [] d = "context_failed" -> 4
      [] d = "session_failed" -> 5
      [] d = "pdu_failed" -> 6
      [] d = "options_failed" -> 7
      [] d = "add_options_failed" -> 8
      [] d = "send_failed" -> 9

\* the calls made before the cleanup path was entered
CleanupAt ==
    IF Has(calls, "cleanup_resources")
    THEN CHOOSE i \in DOMAIN calls :
            /\ calls[i] = "cleanup_resources"
            /\ \A j \in 1..(i - 1) : calls[j] # "cleanup_resources"
    ELSE Len(calls) + 1

BeforeCleanup == SubSeq(calls, 1, CleanupAt - 1)

C8_FailureGoesToCleanup ==
    \A d \in FailureDiags :
       Has(out, d) =>
          /\ pc \in {"finish", "done"}
          /\ result = EXIT_FAILURE
          /\ out = <<d>>
          /\ \A i \in DOMAIN BeforeCleanup : CallStage(BeforeCleanup[i]) <= FailStage(d)
          /\ elapsed = 0 /\ handler_calls = 0

\* the send was refused: the run went to cleanup and returned EXIT_FAILURE
C8_Witness ==
    /\ pc = "done"
    /\ out = <<"send_failed">>
    /\ result = EXIT_FAILURE
    /\ Has(calls, "coap_send")

\* ---------------------------------------------------------------- claim C9
\* C9: every run reports exactly one exchange outcome; no run prints both
\* the timeout diagnostic and the success diagnostic, also when the handler
\* runs inside the coap_io_process call whose return exhausts the budget.
OutcomesReported ==
    {o \in {"Success", "Timeout", "TransportFailure", "SetupFailure"} :
        \/ o = "Success" /\ Has(out, "SUCCESS")
        \/ o = "Timeout" /\ Has(out, "TIMEOUT")
        \/ o = "TransportFailure" /\ Has(out, "send_failed")
        \/ o = "SetupFailure" /\ \E d \in FailureDiags \ {"send_failed"} : Has(out, d)}

C9_ExactlyOneOutcome ==
    /\ ~(Has(out, "TIMEOUT") /\ Has(out, "SUCCESS"))
    /\ pc = "done" => Cardinality(OutcomesReported) = 1

\* --------------------------------------------------------------- claim C10
\* C10: coap_send is called at most once in a run, exactly once in every run
\* that is in or past the wait loop, and never in a run in which a stage
\* before the send failed; no call of the wait loop adds a send.
C10_SendExactlyOnce ==
    /\ Count(calls, "coap_send") <= 1
    /\ pc \in {"wait", "io", "after"} => Count(calls, "coap_send") = 1
    /\ (elapsed > 0 \/ handler_calls > 0) => Count(calls, "coap_send") = 1
    /\ \A d \in FailureDiags \ {"send_failed"} :
         Has(out, d) => ~Has(calls, "coap_send")

\* a run that sent once, waited through several event-processing calls and
\* timed out
C10_Witness ==
    /\ pc = "done"
    /\ Count(calls, "coap_send") = 1
    /\ Has(out, "TIMEOUT")
    /\ elapsed > 0


\* --------------------------------------------------------------- claim C11
\* C11: the response handler is idempotent on the completion flag:
\* have_response is 0 or 1, it is 1 after any number n >= 1 of invocations,
\* its value changes at most once in a run, and every invocation returns
\* COAP_RESPONSE_OK.
C11_HandlerIdempotent ==
    /\ have_response \in {0, 1}
    /\ \A hr \in {0, 1} : response_handler(response_handler(hr)) = response_handler(hr)
    /\ handler_calls >= 1 => have_response = 1
    /\ hr_changes <= 1
    /\ handler_calls >= 1 => handler_rets = {COAP_RESPONSE_OK}
    /\ handler_rets \subseteq {COAP_RESPONSE_OK}

\* the same response was delivered more than once in one exchange
C11_Witness ==
    /\ handler_calls >= 2
    /\ have_response = 1
    /\ hr_changes = 1
    /\ Len(received) >= 2

\* --------------------------------------------------------------- claim C12
\* C12: when the handler is invoked during an event-processing call that
\* returns before the budget is exhausted, the wait loop makes no further
\* coap_io_process call, the only diagnostic is the success one, the payload
\* written is the payload received, and main returns EXIT_SUCCESS after the
\* cleanup path.
HasBody(p) == p # ""

C12_ResponseWithinBudget ==
    (handler_calls >= 1 /\ ~Has(out, "TIMEOUT")) =>
       /\ pc \in {"wait", "after", "finish", "done"}
       /\ surfaced = SelectSeq(received, HasBody)
       /\ \A d \in FailureDiags : ~Has(out, d)
       /\ pc \in {"finish", "done"} => (out = <<"SUCCESS">> /\ result = EXIT_SUCCESS)
       /\ pc = "done" => Count(calls, "cleanup_resources") = 1

\* connectivity came up at the first attempt, "Hello World!" arrived within
\* the budget, the run ended with the success outcome
C12_Witness ==
    /\ pc = "done"
    /\ Len(attempts) = 1
    /\ received = <<"Hello World!">>
    /\ surfaced = <<"Hello World!">>
    /\ out = <<"SUCCESS">>
    /\ result = EXIT_SUCCESS
    /\ elapsed < WaitBudget(leisure)


\* --------------------------------------------------------------- claim C13
SessionCalls ==
    Count(calls, "coap_new_client_session")
      + Count(calls, "coap_new_client_session_pki")

\* C13: a run creates at most one client session; while no session exists
\* no PDU is built and nothing is sent, and a run that ends without a session
\* (the constructor returned NULL, or the scheme has no dispatch branch in
\* the build) took exactly one failure branch and returns EXIT_FAILURE.
C13_OneSessionOrSetupFailure ==
    /\ SessionCalls <= 1
    /\ "session" \in created => SessionCalls = 1
    /\ "session" \notin created =>
          /\ session = NULL
          /\ ~Has(calls, "coap_pdu_init")
          /\ ~Has(calls, "coap_send")
          /\ pdu = NoPdu
          /\ result = EXIT_FAILURE
          /\ pc \in {"finish", "done"} =>
                \E d \in FailureDiags : out = <<d>> /\ FailStage(d) <= 5
    /\ Has(out, "session_failed") => "session" \notin created

\* a coaps URI in a build without a DTLS branch: no constructor is called,
\* the session stays NULL and the run ends in the session failure
C13_Witness ==
    /\ pc = "done"
    /\ variant = "wolfssl"
    /\ uri.scheme = "coaps"
    /\ Has(calls, "coap_new_context")
    /\ SessionCalls = 0
    /\ out = <<"session_failed">>
    /\ result = EXIT_FAILURE
    /\ ~Has(calls, "coap_send")


\* --------------------------------------------------------------- claim C14
\* the session stage was executed: the context exists and main moved on
PastSessionStage ==
    /\ "ctx" \in created
    /\ pc \notin {"start", "wifi", "host", "addr", "ctx", "session"}

\* the protocol the claim assigns to a scheme
ClaimedProto(scheme) ==
    CASE scheme = "coap"     -> "UDP"
      [] scheme = "coap+tcp" -> "TCP"
      [] scheme = "coaps"    -> "DTLS"

\* C14: in every variant the session stage dispatches on the parsed scheme:
\* coap asks for a UDP session, coap+tcp for a TCP session, coaps for a DTLS
\* session through the PKI constructor; a session that exists has the
\* protocol of its scheme.
C14_SchemeDispatch ==
    PastSessionStage =>
       /\ SessionCalls = 1
       /\ Has(calls, "coap_new_client_session_pki") <=> uri.scheme = "coaps"
       /\ session # NULL => session = ClaimedProto(uri.scheme)


\* --------------------------------------------------------------- claim C15
SessionConstructors == {"coap_new_client_session", "coap_new_client_session_pki"}

\* the calls made on the cleanup path
OnCleanup == SubSeq(calls, CleanupAt, Len(calls))

\* C15: the stages of a run happen in the order connectivity, address,
\* context, session, message, send, wait, cleanup.  A session constructor
\* is called only after a connectivity attempt reported ready, after
\* setup_destination_address returned success and after the context was
\* created; a session that was created is released on the cleanup path,
\* whatever the outcome of the exchange.
C15_StageOrder ==
    /\ \A i \in 1..(CleanupAt - 2) : CallStage(calls[i]) <= CallStage(calls[i + 1])
    /\ (\E c \in SessionConstructors : Has(calls, c)) =>
          /\ Len(attempts) >= 1 /\ AttemptOk(Last(attempts))
          /\ wifi_connected = 1
          /\ Has(calls, "setup_destination_address")
          /\ dst.size = SizeofSockaddrIn
          /\ ~Has(out, "address_failed")
          /\ Has(calls, "coap_new_context") /\ "ctx" \in created
    /\ Has(calls, "coap_pdu_init") => "session" \in created
    /\ Has(calls, "coap_send") => Has(calls, "coap_pdu_init")
    /\ (elapsed > 0 \/ handler_calls > 0 \/ pc \in {"wait", "io", "after"}) =>
          EnteredWaitLoop
    /\ Has(calls, "cleanup_resources") => pc = "done"
    /\ ~Has(BeforeCleanup, "coap_session_release")
    /\ ("session" \in created /\ pc = "done") =>
          Count(OnCleanup, "coap_session_release") = 1

\* a session was created, the send was refused, and the session was
\* released on the cleanup path all the same
C15_Witness ==
    /\ pc = "done"
    /\ "session" \in created
    /\ out = <<"send_failed">>
    /\ AttemptOk(Last(attempts))
    /\ Has(OnCleanup, "coap_session_release")
    /\ Has(BeforeCleanup, "setup_destination_address")


\* --------------------------------------------------------------- claim C16
\* the mains that copy the host into host_str
HasHostStr(v) == v \in RetryVariants

\* the host stage was executed
PastHostStage == pc \notin {"start", "wifi", "host"} /\ wifi_connected = 1

\* C16: in the mains that copy the host into host_str[64], a parsed host of
\* length 64 or more ends the run in the host failure branch: no call of
\* setup_destination_address, no context, no session, EXIT_FAILURE, nothing
\* written to the buffer.  A host of length L < 64 is copied whole: L bytes,
\* terminator at index L <= 63, and host_str holds the URI's host.
C16_HostBuffer ==
    HasHostStr(variant) =>
       /\ host_buf.copied <= HostStrSize
       /\ host_buf.nul <= HostStrSize - 1
       /\ PastHostStage =>
            IF HostLen(uri.host) >= HostStrSize
            THEN /\ out = <<"host_too_long">>
                 /\ pc \in {"finish", "done"}
                 /\ result = EXIT_FAILURE
                 /\ ~Has(calls, "setup_destination_address")
                 /\ ~Has(calls, "coap_new_context")
                 /\ created = {}
                 /\ host_buf = NoHostBuf
            ELSE /\ host_buf.copied = HostLen(uri.host)
                 /\ host_buf.nul = HostLen(uri.host)
                 /\ host_str = uri.host
                 /\ ~Has(out, "host_too_long")
       /\ Has(out, "host_too_long") => HostLen(uri.host) >= HostStrSize

\* the 64-byte host was refused
C16_Witness ==
    /\ pc = "done"
    /\ HasHostStr(variant)
    /\ HostLen(uri.host) = HostStrSize
    /\ out = <<"host_too_long">>
    /\ host_buf = NoHostBuf
    /\ result = EXIT_FAILURE

\* the 63-byte host was copied whole, terminator in the last slot
C16_WitnessFits ==
    /\ HasHostStr(variant)
    /\ HostLen(uri.host) = HostStrSize - 1
    /\ host_buf = [copied |-> HostStrSize - 1, nul |-> HostStrSize - 1]
    /\ host_str = uri.host


\* --------------------------------------------------------------- claim C17
\* C17: in every variant the host handed to setup_destination_address is
\* the host of the parsed URI: the address of the endpoint a session is
\* bound to is the URI's host.
C17_EndpointIsUriHost ==
    /\ pc = "addr" => AddressHost(variant) = uri.host
    /\ (Has(calls, "setup_destination_address") /\ dst.size # 0) =>
          dst.host = uri.host
    /\ "session" \in created => dst.host = uri.host


\* --------------------------------------------------------------- claim C18
\* the ports setup_destination_address is tried with
Ports == {COAP_DEFAULT_PORT, COAPS_DEFAULT_PORT, 5700}

\* what a call of setup_destination_address(host, port) must produce
ResolvedAsClaimed(host, port, r) ==
    /\ r.ret \in {0, 1}
    /\ r.ret = 1 <=> IsNumericIPv4(host)
    /\ r.ret = 1 =>
          /\ r.dst.size = SizeofSockaddrIn
          /\ sin_family(r.dst) = "AF_INET"
          /\ sa_family(r.dst) = "AF_INET"
          /\ r.dst.host = host
          /\ ntohs(r.dst.sin_port) = port
          /\ r.dst.sin_port = (port % 256) * 256 + (port \div 256)
    /\ r.ret = 0 => r.dst.size = 0

\* the function alone, on every host and port tried
ResolverAsClaimed ==
    \A h \in Hosts, p \in Ports :
       ResolvedAsClaimed(h, p, setup_destination_address(h, p))

\* C18: setup_destination_address returns 1 exactly for a numeric IPv4
\* host, and then the endpoint has size sizeof(struct sockaddr_in), AF_INET
\* in both family fields and the port in network byte order; for any other
\* host it returns 0 with size 0, and the run takes the address failure
\* branch: no context, no session, EXIT_FAILURE.
C18_NumericResolution ==
    /\ ResolverAsClaimed
    /\ Has(calls, "setup_destination_address") =>
          /\ ResolvedAsClaimed(AddressHost(variant), AddressPort(variant),
                               [ret |-> IF Has(out, "address_failed") THEN 0 ELSE 1,
                                dst |-> dst])
          /\ Has(out, "address_failed") =>
                /\ out = <<"address_failed">>
                /\ pc \in {"finish", "done"}
                /\ result = EXIT_FAILURE
                /\ created = {}
                /\ ~Has(calls, "coap_new_context")
                /\ SessionCalls = 0

\* a numeric host was resolved: size 8, AF_INET, port 5683 as 0x3316
C18_Witness ==
    /\ Has(calls, "setup_destination_address")
    /\ IsNumericIPv4(AddressHost(variant))
    /\ dst.size = SizeofSockaddrIn
    /\ sin_family(dst) = "AF_INET" /\ sa_family(dst) = "AF_INET"
    /\ dst.sin_port = 13078
    /\ ntohs(dst.sin_port) = COAP_DEFAULT_PORT
    /\ "ctx" \in created

\* a host name was refused: size 0, the run is over without a context
C18_WitnessRefused ==
    /\ pc = "done"
    /\ out = <<"address_failed">>
    /\ ~IsNumericIPv4(host_str)
    /\ dst.size = 0
    /\ created = {}
    /\ result = EXIT_FAILURE


\* --------------------------------------------------------------- claim C19
\* the port the endpoint names, read back in host order
PortContacted == ntohs(dst.sin_port)

\* C19: the endpoint's port is the server port the build was configured
\* with when one was configured, and the default of the URI's scheme (5683
\* unsecured, 5684 secured) only when none was.
C19_ConfiguredPortContacted ==
    Has(calls, "setup_destination_address") =>
       PortContacted = IF port_cfg # PortNotSet THEN port_cfg
                       ELSE DefaultPort(uri.scheme)


\* --------------------------------------------------------------- claim C20
\* the releases due for the resources r, in dependency order
ReleasesDue(r) ==
    (IF "optlist" \in r THEN <<"coap_delete_optlist">> ELSE <<>>)
      \o (IF "session" \in r THEN <<"coap_session_release">> ELSE <<>>)
      \o (IF "ctx" \in r THEN <<"coap_free_context">> ELSE <<>>)

\* a handle that is NULL or not
Handle(r, name) == IF name \in r THEN name ELSE NULL

\* cleanup_resources alone, on every combination of NULL handles
CleanupToleratesAbsent ==
    \A r \in SUBSET Resources :
       cleanup_resources(Handle(r, "ctx"), Handle(r, "session"),
                         Handle(r, "optlist"))
          = ReleasesDue(r) \o <<"coap_cleanup">>

\* C20: the cleanup path releases the option list, then the session, then
\* the context (each if present), then calls coap_cleanup, and disconnects
\* the provider last; the context is never freed while a session created on
\* it is unreleased; cleanup_resources completes for every subset of the
\* three handles being NULL.
C20_CleanupOrder ==
    /\ CleanupToleratesAbsent
    /\ pc = "done" =>
          /\ OnCleanup = <<"cleanup_resources">> \o ReleasesDue(created)
                           \o <<"coap_cleanup", "wifi_disconnect">>
          /\ Last(calls) = "wifi_disconnect"
    /\ pc # "done" => OnCleanup = <<>>
    /\ \A i \in Positions(calls, "coap_free_context") :
          "session" \in created =>
             \E j \in Positions(calls, "coap_session_release") : j < i

\* all three resources existed and were released in order
C20_Witness ==
    /\ pc = "done"
    /\ created = Resources
    /\ OnCleanup = <<"cleanup_resources", "coap_delete_optlist",
                     "coap_session_release", "coap_free_context",
                     "coap_cleanup", "wifi_disconnect">>

\* nothing was created: the path runs coap_cleanup and the disconnect only
C20_WitnessNothing ==
    /\ pc = "done"
    /\ created = {}
    /\ OnCleanup = <<"cleanup_resources", "coap_cleanup", "wifi_disconnect">>


\* --------------------------------------------------------------- claim C21
\* C21: in the PQC client built with ENABLE_MLKEM the configured
\* PQC_KEY_EXCHANGE is set on the DTLS session after the session was
\* created and before the request is sent.
C21_KeyShareApplied ==
    /\ "session" \notin created => keyshare = NoKeyShare
    /\ (ENABLE_MLKEM(variant) /\ session = "DTLS" /\ Has(calls, "coap_send")) =>
          keyshare = PQC_KEY_EXCHANGE


\* --------------------------------------------------------------- claim C27
\* C27: a negative return of coap_io_process is not fatal: the call leaves
\* wait_ms, the diagnostics and the result as they were and main goes back
\* to the loop test; the loop test continues exactly when no response was
\* recorded.
C27_NegativeReturnNotFatal ==
    [][ /\ (pc = "io" /\ pc' # "io" /\ res' < 0) =>
             /\ wait_ms' = wait_ms
             /\ elapsed' = elapsed
             /\ out' = out
             /\ result' = result
             /\ pc' = "wait"
        /\ (pc = "wait" /\ pc' # "wait") =>
             /\ pc' \in {"io", "after"}
             /\ pc' = "io" <=> have_response = 0
             /\ UNCHANGED <<wait_ms, out, result, res>> ]_vars

\* coap_io_process returned an error after 500 ms of the budget were used:
\* the rest of the budget is intact and nothing was reported
C27_Witness ==
    /\ pc = "wait"
    /\ res < 0
    /\ have_response = 0
    /\ elapsed = 500
    /\ wait_ms = WaitBudget(leisure) - 500
    /\ out = <<>>
    /\ result = EXIT_FAILURE


\* --------------------------------------------------------------- claim C28
\* the wait loop was left
LoopLeft == pc \in {"after", "finish", "done"}

HaveResponseTracksHandler ==
    /\ have_response = (IF handler_calls > 0 THEN 1 ELSE 0)
    /\ handler_calls > 0 => EnteredWaitLoop
    /\ Has(out, "SUCCESS") => (handler_calls >= 1 /\ Has(calls, "coap_send"))
    /\ (pc = "after" /\ ~Has(out, "TIMEOUT")) =>
          (have_response = 1 /\ handler_calls >= 1)

\* C29: have_response is 0 from the start until response_handler is first
\* invoked, is written by nothing else and never goes back to 0; a run
\* reports Success only after the handler ran at least once after the send,
\* and the wait loop ends in the have-response state only through it.
C29_OnlyHandlerSetsResponse ==
    /\ []HaveResponseTracksHandler
    /\ [][ /\ have_response' # have_response =>
                /\ pc = "io"
                /\ handler_calls' > handler_calls
                /\ have_response = 0 /\ have_response' = 1
           /\ handler_calls' # handler_calls => pc = "io"
           /\ have_response = 1 => have_response' = 1 ]_vars

\* the handler ran once during the wait loop and the run reported Success
C29_Witness ==
    /\ pc = "done"
    /\ handler_calls = 1
    /\ hr_changes = 1
    /\ have_response = 1
    /\ Has(out, "SUCCESS")
    /\ EnteredWaitLoop


\* --------------------------------------------------------------- claim C30
\* C30: every request built is a confirmable GET whose message identifier
\* was issued by the session; the options made from the URI are attached
\* before it is sent; is_mcast is always 0, so no non-confirmable message
\* is ever built.
C30_ConfirmableGet ==
    /\ is_mcast = 0
    /\ pdu # NoPdu =>
          /\ pdu.type = "CON"
          /\ pdu.code = "GET"
          /\ session # NULL /\ pdu.mid = session
          /\ Has(calls, "coap_pdu_init")
    /\ pdu.options => (optlist # NULL /\ Has(calls, "coap_add_optlist_pdu"))
    /\ Has(calls, "coap_send") =>
          /\ pdu.state = "sent"
          /\ pdu.options <=> optlist # NULL
          /\ Has(calls, "coap_uri_into_options")
    /\ pdu.state = "sent" <=> Has(calls, "coap_send")

\* a confirmable GET with its options was handed to coap_send
C30_Witness ==
    /\ Has(calls, "coap_send")
    /\ pdu = [type |-> "CON", code |-> "GET", mid |-> session,
              options |-> TRUE, state |-> "sent"]
    /\ session = "DTLS"
    /\ optlist # NULL

\* --------------------------------------------------------------- claim C31
\* C31: while main is in the wait loop, wait_ms is the budget
\* (leisure + 1) * 1000 less the sum of the non-negative values that
\* coap_io_process returned so far, the budget is at least 1000 and wait_ms
\* is above 0, so wait_ms -= res never goes below zero.
C31_BudgetAccounting ==
    pc \in {"wait", "io"} =>
       /\ WaitBudget(leisure) >= 1000
       /\ wait_ms = WaitBudget(leisure) - elapsed
       /\ wait_ms > 0
       /\ wait_ms <= WaitBudget(leisure)

\* part of the budget was used up and the loop goes on
C31_Witness ==
    /\ pc = "wait"
    /\ res = 500
    /\ elapsed = 500
    /\ wait_ms = WaitBudget(leisure) - 500
    /\ have_response = 0

\* --------------------------------------------------------------- claim C32
\* C32: when main has returned, the request PDU that coap_pdu_init
\* allocated was either given to coap_send or released; no run returns with
\* a PDU that is still allocated.
C32_PduSentOrFreed ==
    pc = "done" => pdu.state \in {"null", "sent", "freed"}

\* --------------------------------------------------------------- claim C33
FailedAttempts == Cardinality({i \in DOMAIN attempts : ~AttemptOk(attempts[i])})
DisconnectPositions == Positions(calls, "wifi_disconnect")

\* C33: in the clients that retry, a finished run made f + 1 wifi_disconnect
\* calls when Wi-Fi connected after f failed attempts (f at most 2), 3 when
\* all three attempts failed and 1 when the URI did not parse; between two
\* wifi_disconnect calls there is always a connect_to_wifi call.
C33_DisconnectCount ==
    (variant \in RetryVariants /\ pc = "done") =>
       /\ IF Has(out, "parse_failed")
          THEN attempts = <<>> /\ Cardinality(DisconnectPositions) = 1
          ELSE IF wifi_connected = 1
          THEN /\ FailedAttempts \in 0..2
               /\ Cardinality(DisconnectPositions) = FailedAttempts + 1
          ELSE /\ FailedAttempts = 3
               /\ Cardinality(DisconnectPositions) = 3
       /\ \A i, j \in DisconnectPositions :
            i < j => \E k \in (i + 1)..(j - 1) : calls[k] = "connect_to_wifi"

\* connected at the third attempt: two disconnects of the loop and the last
C33_Witness ==
    /\ variant \in RetryVariants
    /\ pc = "done"
    /\ wifi_connected = 1
    /\ FailedAttempts = 2
    /\ Cardinality(DisconnectPositions) = 3

\* no attempt connected
C33_WitnessExhausted ==
    /\ variant \in RetryVariants
    /\ pc = "done"
    /\ wifi_connected = 0
    /\ FailedAttempts = 3
    /\ Cardinality(DisconnectPositions) = 3

\* the URI did not parse
C33_WitnessParse ==
    /\ variant \in RetryVariants
    /\ pc = "done"
    /\ Has(out, "parse_failed")
    /\ calls[Len(calls)] = "wifi_disconnect"
    /\ Cardinality(DisconnectPositions) = 1

\* --------------------------------------------------------------- claim C34
\* C34: in every variant wait_for_wifi_connection is called at most once per
\* connect attempt and only when the connect_to_wifi of that attempt
\* returned 0 or more; after a negative return the attempt fails without
\* the readiness wait.
C34_WaitOnlyAfterConnect ==
    /\ \A i \in DOMAIN attempts : attempts[i].waited <=> attempts[i].connect >= 0
    /\ Count(calls, "wait_for_wifi_connection")
         = Cardinality({i \in DOMAIN attempts : attempts[i].waited})
    /\ Count(calls, "connect_to_wifi") = Len(attempts)

\* --------------------------------------------------------------- claim C35
SendPositions == Positions(calls, "coap_send")
RegisterPositions == Positions(calls, "coap_register_response_handler")

\* C35: every run that sends has registered the response handler before
\* coap_send, so the wait loop never processes events without a handler;
\* the handler is registered once, and only after the session was created.
C35_HandlerBeforeSend ==
    /\ \A i \in SendPositions : \E j \in RegisterPositions : j < i
    /\ pc \in {"send", "wait", "io"} => handler_registered
    /\ handler_calls > 0 => handler_registered
    /\ handler_registered <=> RegisterPositions # {}
    /\ Cardinality(RegisterPositions) <= 1
    /\ \A j \in RegisterPositions :
         /\ j > 1
         /\ calls[j - 1] \in SessionConstructors
         /\ "session" \in created

\* a response was delivered to the handler registered before the send
C35_Witness ==
    /\ SendPositions # {}
    /\ handler_registered
    /\ handler_calls > 0
    /\ have_response = 1

\* --------------------------------------------------------------- claim C36
LibraryCleanupAt == CHOOSE i \in DOMAIN calls : calls[i] = "coap_cleanup"
ReleaseCalls == {"coap_delete_optlist", "coap_session_release", "coap_free_context"}

\* C36: coap_startup is the first provider call of every run and is made
\* once; coap_cleanup is made once on every exit path, the URI parse failure
\* included, after the releases of option list, session and context and
\* right before the final wifi_disconnect.
C36_StartupAndCleanupOnce ==
    /\ calls # <<>> => calls[1] = "coap_startup"
    /\ Count(calls, "coap_startup") = (IF pc = "start" THEN 0 ELSE 1)
    /\ Count(calls, "coap_cleanup") = (IF pc = "done" THEN 1 ELSE 0)
    /\ pc = "done" =>
         /\ \A i \in DOMAIN calls : calls[i] \in ReleaseCalls => i < LibraryCleanupAt
         /\ LibraryCleanupAt + 1 = Len(calls)
         /\ calls[Len(calls)] = "wifi_disconnect"

\* the URI did not parse: startup, the parse, then the cleanup path
C36_Witness ==
    /\ pc = "done"
    /\ Has(out, "parse_failed")
    /\ calls = <<"coap_startup", "coap_split_uri", "cleanup_resources",
                 "coap_cleanup", "wifi_disconnect">>

\* everything was created and released before coap_cleanup
C36_WitnessAll ==
    /\ pc = "done"
    /\ created = Resources
    /\ SubSeq(calls, Len(calls) - 4, Len(calls))
         = <<"coap_delete_optlist", "coap_session_release", "coap_free_context",
             "coap_cleanup", "wifi_disconnect">>

\* --------------------------------------------------------------- claim C37
\* What one controller does with given provider outcomes, written without a
\* reference to the variant: the outcomes are the connect attempts, the step
\* that failed (if any), the resources that came into being and the option
\* list left by coap_uri_into_options.
FailedAt ==
    IF \E d \in FailureDiags : Has(out, d)
    THEN FailStage(CHOOSE d \in FailureDiags : Has(out, d))
    ELSE 10

RECURSIVE AttemptCalls(_, _)
AttemptCalls(as, i) ==
    IF i > Len(as) THEN <<>>
    ELSE <<"connect_to_wifi">>
         \o (IF as[i].connect >= 0 THEN <<"wait_for_wifi_connection">> ELSE <<>>)
         \o (IF ~AttemptOk(as[i]) /\ i < MaxWifiAttempts
             THEN <<"wifi_disconnect", "k_sleep_2000">> ELSE <<>>)
         \o AttemptCalls(as, i + 1)

When(c, s) == IF c THEN s ELSE <<>>

ControllerCalls ==
    LET f == FailedAt IN
    <<"coap_startup", "coap_split_uri">>
    \o When(f >= 1, <<"wifi_init">> \o AttemptCalls(attempts, 1))
    \o When(f >= 2, <<"k_sleep_1000">>)
    \o When(f >= 3, <<"setup_destination_address">>)
    \o When(f >= 4, <<"coap_new_context">>)
    \o When(f >= 5, <<"coap_new_client_session_pki">>)
    \o When(f >= 6, <<"coap_register_response_handler", "coap_pdu_init">>)
    \o When(f >= 7, <<"coap_uri_into_options">>)
    \o When(f >= 8 /\ optlist # NULL, <<"coap_add_optlist_pdu">>)
    \o When(f >= 9, <<"coap_send">>)
    \o <<"cleanup_resources">>
    \o When("optlist" \in created, <<"coap_delete_optlist">>)
    \o When("session" \in created, <<"coap_session_release">>)
    \o When("ctx" \in created, <<"coap_free_context">>)
    \o <<"coap_cleanup", "wifi_disconnect">>

\* the exit code of the classical client: success once the wait loop was left
ControllerResult == IF FailedAt = 10 THEN EXIT_SUCCESS ELSE EXIT_FAILURE

DtlsClients ==
    /\ coap_uri.scheme = "coaps"
    /\ variant = "pqc" \/ (variant = "mbedtls" /\ use_dtls)

\* C37: for a coaps target, the classical DTLS client and the post-quantum
\* client make the same provider calls and return the same exit code on the
\* same provider outcomes: both are the one controller above.
C37_SameController ==
    (DtlsClients /\ pc = "done") =>
       /\ calls = ControllerCalls
       /\ result = ControllerResult

\* --------------------------------------------------------------- claim C38
\* generate_certs.sh went through main with the OpenSSL it found
CertsRan ==
    /\ script = "generate_certs.sh"
    /\ Exited
    /\ argv = <<>>
    /\ ValidType(shvars.CERT_TYPE)
    /\ \A i \in DOMAIN sh_cmds : sh_cmds[i] # Echo("usage")
    /\ environ.openssl > 0

Generated == SelectSeq(sh_cmds, LAMBDA c : c[1] = "generate")

C38_WitnessRefused ==
    /\ CertsRan
    /\ shvars.CERT_TYPE = "ml-dsa-44"
    /\ environ.openssl = 30
    /\ sh_status = 1

\* --type all on OpenSSL 3.5
C38_WitnessAll ==
    /\ CertsRan
    /\ shvars.CERT_TYPE = "all"
    /\ environ.openssl = 35
    /\ Len(Generated) = 6

\* --------------------------------------------------------------- claim C39
\* the ML-KEM parameter sets the preprocessed header leaves enabled
MlKemEnabled ==
    {n \in MlKemSets : ~Has(sh_cmds, Define(NoMlKemMacro[n]))}

\* C39: with ENABLE_MLKEM defined, MLKEM_LEVEL 1, 3 and 5 leave exactly
\* ML-KEM-512, ML-KEM-768 and ML-KEM-1024 enabled, any other level stops the
\* build with an error, and the parameter set of the default
\* PQC_KEY_EXCHANGE is the one the default MLKEM_LEVEL leaves enabled.
C39_OneMlKemSetPerLevel ==
    (script = PqcConfigHeader /\ Exited /\ shvars.ENABLE_MLKEM) =>
       LET level == shvars.MLKEM_LEVEL IN
       /\ level = 1 => sh_status = 0 /\ MlKemEnabled = {512}
       /\ level = 3 => sh_status = 0 /\ MlKemEnabled = {768}
       /\ level = 5 => sh_status = 0 /\ MlKemEnabled = {1024}
       /\ level \notin {1, 3, 5} =>
            /\ sh_status # 0
            /\ \E i \in DOMAIN sh_cmds : sh_cmds[i][1] = "#error"
       /\ level = DefaultMlkemLevel =>
            MlKemEnabled = {MlKemOf[PQC_KEY_EXCHANGE]}

\* the default level: ML-KEM-768 alone is left
C39_Witness ==
    /\ script = PqcConfigHeader
    /\ Exited
    /\ shvars.ENABLE_MLKEM
    /\ shvars.MLKEM_LEVEL = DefaultMlkemLevel
    /\ sh_status = 0
    /\ MlKemEnabled = {768}

\* a level that is none of 1, 3, 5
C39_WitnessRejected ==
    /\ script = PqcConfigHeader
    /\ Exited
    /\ shvars.ENABLE_MLKEM
    /\ shvars.MLKEM_LEVEL = 2
    /\ sh_status = 1

=============================================================================
